---- MODULE Spec2Model ----
(***************************************************************************)
(* Model of the activity push fan-out of Hilary                            *)
(* (src/packages/oae-discussions/lib/init.js, the oae-activity push        *)
(* module): websocket connections authenticate, subscribe to activity      *)
(* streams, and broker messages are dispatched to the subscribed sockets.  *)
(*                                                                         *)
(* Node.js runs every handler to completion on one thread, so each         *)
(* handler and each callback is one atomic action.  A call to an external  *)
(* collaborator (principal lookup, authorization handler, broker bind and  *)
(* unbind, activity transformer) is a record in a "pending" set; its       *)
(* callback is a later action that removes the record.                     *)
(***************************************************************************)
EXTENDS Integers, Sequences, FiniteSets, Bags, TLC

(***************************************************************************)
(* Bounds of the model.                                                    *)
(***************************************************************************)
MaxFrames == 4               \* inbound frames of two sockets together
MaxFramesPerConnection == 3  \* inbound frames of one socket
MaxOrderlyFrames == 5        \* inbound frames of two orderly clients together
MaxMessages == 1             \* broker messages
MaxEvents == 1               \* activities the activity pipeline emits

\* The sockets that connect to this node
Connections == {1, 2}
Users == {1, 2}
Resources == {1, 2}
StreamTypes == {"activity", "notification"}
\* ActivityConstants.transformerTypes
TransformerTypes == {"internal", "activitystreams"}
INTERNAL == "internal"
\* `null` / absent values of the JavaScript code
NoCtx == 0
NoFormat == "none"

\* ActivityUtil.createActivityStreamId: the stream id composed of the
\* resource id and the stream type (an injective composition).
createActivityStreamId(resourceId, streamType) == <<resourceId, streamType>>

StreamIds == {createActivityStreamId(r, t) : r \in Resources, t \in StreamTypes}

VARIABLES
  sock,                     \* socket state per connection: idle, open, closing, closed
  ctx,                      \* connectionInfo.ctx: NoCtx or the user of the context
  streams,                  \* connectionInfo.streams: list of stream ids
  transformerTypes,         \* connectionInfo.transformerTypes: stream id -> list of formats
  authenticationTimeout,    \* the timer armed at socket open: none, armed, cleared, fired
  connectionInfosPerStream, \* stream id -> list of connections (<<>> when absent)
  bound,                    \* the broker: is this node's queue bound to the topic
  pendingPrincipal,         \* PrincipalsDAO.getPrincipal calls in flight
  pendingAuthz,             \* authorization handler calls in flight
  pendingBind,              \* MQ.bindQueueToExchange calls in flight
  pendingUnbind,            \* MQ.unbindQueueFromExchange calls in flight
  pendingTransform,         \* ActivityTransformer.transformActivities calls in flight
  dispatch,                 \* per broker message: the handler's counters and callback invocations
  out,                      \* the frames written to each socket (a bag)
  nframes,                  \* number of inbound frames per connection so far
  nmessages,                \* number of broker messages so far
  authOk,                   \* connections that were sent an authentication acknowledgment
  phase,                    \* stream type -> its registered push.delivery.phase
  events,                   \* per activity: the targets it was routed and delivered to
  published,                \* what was submitted to the push exchange, and by which listener
  mqCalls,                  \* per node: the calls init made to the broker, with their outcome
  initResult,               \* per node: the errors init's callback was invoked with (0: none)
  following,                \* FollowingDAO: the stored pairs <<follower, followed>>
  followCalls,              \* the calls of FollowingAPI.follow, each with its position and outcome
  _errors,                  \* a Validator's _errors: the messages of the failed checks
  checked                   \* the checks made on that Validator so far, each with its outcome

vars == <<sock, ctx, streams, transformerTypes, authenticationTimeout,
          connectionInfosPerStream, bound, pendingPrincipal, pendingAuthz,
          pendingBind, pendingUnbind, pendingTransform, dispatch, out,
          nframes, nmessages, authOk, phase, events, published, mqCalls, initResult,
          following, followCalls, _errors, checked>>

hookVars == <<phase, events, published>>
startupVars == <<mqCalls, initResult>>
followVars == <<following, followCalls>>
validatorVars == <<_errors, checked>>
apiVars == <<followVars, validatorVars>>

connVars == <<sock, ctx, streams, transformerTypes, authenticationTimeout>>
pendVars == <<pendingPrincipal, pendingAuthz, pendingBind, pendingUnbind, pendingTransform>>

----------------------------------------------------------------------------
(***************************************************************************)
(* Helpers                                                                 *)
(***************************************************************************)
Contains(s, x) == \E i \in 1..Len(s) : s[i] = x

\* Array.prototype.splice(i, 1) at the first index holding x; unchanged when
\* x does not occur
RECURSIVE SpliceFirst(_, _)
SpliceFirst(s, x) ==
  IF s = <<>> THEN <<>>
  ELSE IF Head(s) = x THEN Tail(s)
  ELSE <<Head(s)>> \o SpliceFirst(Tail(s), x)

\* The response frame of _writeResponse: code 0 stands for "no error"
Response(id, code) == [replyTo |-> id, code |-> code]

\* The response frame for an error the module words itself: {code, msg}
ErrorResponse(id, code, msg) == [replyTo |-> id, code |-> code, msg |-> msg]

\* socket.write: one more copy of the frame among those the socket was sent
socketWrite(o, c, frame) == [o EXCEPT ![c] = @ (+) SetToBag({frame})]

\* A response that is not written
noResponse(o, c, id, code) == o

\* _writeResponse: write the response to the request with this id
_writeResponse(o, c, id, code) == socketWrite(o, c, Response(id, code))

\* The frames a socket was sent, and how often it was sent a frame
Written(c) == BagToSet(out[c])
TimesWritten(c, frame) == CopiesIn(frame, out[c])

\* socket.close(): an open socket starts closing; its close event comes later
socketClose(s, c) == [s EXCEPT ![c] = IF @ = "open" THEN "closing" ELSE @]

IsResponse(m) == "replyTo" \in DOMAIN m
IsPush(m) == "format" \in DOMAIN m

----------------------------------------------------------------------------
InitConnections ==
  /\ sock = [c \in Connections |-> "idle"]
  /\ ctx = [c \in Connections |-> NoCtx]
  /\ streams = [c \in Connections |-> <<>>]
  /\ transformerTypes = [c \in Connections |-> [s \in StreamIds |-> <<>>]]
  /\ authenticationTimeout = [c \in Connections |-> "none"]
  /\ connectionInfosPerStream = [s \in StreamIds |-> <<>>]
  /\ bound = [s \in StreamIds |-> FALSE]
  /\ pendingPrincipal = {}
  /\ pendingAuthz = {}
  /\ pendingBind = {}
  /\ pendingUnbind = {}
  /\ pendingTransform = {}
  /\ dispatch = <<>>
  /\ out = [c \in Connections |-> EmptyBag]
  /\ nframes = [c \in Connections |-> 0]
  /\ nmessages = 0
  /\ authOk = {}

\* The values of a stream type's push.delivery.phase; "none" when the stream
\* type is registered without one
DeliveryPhases == {"none", "routing", "aggregation"}

\* No activity was emitted yet
InitHooks ==
  /\ events = [e \in 1..MaxEvents |-> [routed |-> {}, delivered |-> {}]]
  /\ published = {}

\* The app nodes, each with a queue of its own, and the names
\* ShortId.generate() may give a queue
Nodes == {0, 1}
QueueNames == {"a", "b"}

\* The outcome of a broker call that has not called back yet
Pending == -1

\* A call to the broker
MQCall(op, queue, result) == [op |-> op, queue |-> queue, result |-> result]

\* init has run on every node: exchange and queue are declared and the
\* queue is consumed from
InitStarted ==
  /\ mqCalls = [n \in Nodes |-> <<MQCall("declareExchange", "", 0),
                                   MQCall("declareQueue", "a", 0),
                                   MQCall("subscribeQueue", "a", 0)>>]
  /\ initResult = [n \in Nodes |-> <<0>>]

\* Nobody follows anybody and follow was not called
InitFollowing ==
  /\ following = {}
  /\ followCalls = <<>>

\* new Validator(): no check was made.  _errors is <<>> also while the
\* field is not there yet, before the first check
InitValidator ==
  /\ _errors = <<>>
  /\ checked = <<>>

InitApi == InitFollowing /\ InitValidator

\* The sockets' specifications: notifications are pushed when aggregated,
\* the other stream types when routed
Init ==
  /\ InitConnections
  /\ phase = [t \in StreamTypes |-> IF t = "notification" THEN "aggregation" ELSE "none"]
  /\ InitHooks
  /\ InitStarted
  /\ InitApi

\* registerConnection: a new socket; the authentication timer is armed
registerConnection(c) ==
  /\ sock[c] = "idle"
  /\ sock' = [sock EXCEPT ![c] = "open"]
  /\ authenticationTimeout' = [authenticationTimeout EXCEPT ![c] = "armed"]
  /\ UNCHANGED <<ctx, streams, transformerTypes, connectionInfosPerStream,
                 bound, pendVars, dispatch, out, nframes, nmessages, authOk>>

TimeoutMsg == "Authentication should happen within 5 seconds after opening the socket"

\* The test the wrong way round
timeoutSeesNoContext(c) == ctx[c] = NoCtx

\* The timer callback's test: has the connection a context
timeoutSeesAuthenticated(c) == ctx[c] # NoCtx

\* The callback of the authentication timer set in registerConnection
authenticationTimeoutFires(c) ==
  /\ authenticationTimeout[c] = "armed"
  /\ authenticationTimeout' = [authenticationTimeout EXCEPT ![c] = "fired"]
  /\ IF timeoutSeesAuthenticated(c)
       THEN UNCHANGED <<sock, out>>
       ELSE /\ out' = socketWrite(out, c, ErrorResponse(0, 400, TimeoutMsg))
            /\ sock' = socketClose(sock, c)
  /\ UNCHANGED <<ctx, streams, transformerTypes, connectionInfosPerStream,
                 bound, pendVars, dispatch, nframes, nmessages, authOk>>

\* The client goes away: the socket starts closing
clientDisconnect(c) ==
  /\ sock[c] = "open"
  /\ sock' = socketClose(sock, c)
  /\ UNCHANGED <<ctx, streams, transformerTypes, authenticationTimeout,
                 connectionInfosPerStream, bound, pendVars, dispatch, out,
                 nframes, nmessages, authOk>>

----------------------------------------------------------------------------
(***************************************************************************)
(* Inbound frames.  A frame is the client's text message: parsed says      *)
(* whether JSON.parse accepts it, value what it parses to ("object", or    *)
(* "null" for the text null), id 0 stands for a missing id, payload        *)
(* says whether message.payload is there ("none", "ok") or, for an         *)
(* authentication frame, holds a signature without an integer expires      *)
(* value ("badexpires").  A user id or resource id 0 and a stream type ""  *)
(* stand for missing properties of the payload; flaws names further parts  *)
(* of an authentication payload that fail their validation.                *)
(***************************************************************************)
Frame(parsed, id, name, payload, userId, resourceId, streamType, format) ==
  [parsed |-> parsed, value |-> "object", id |-> id, name |-> name, payload |-> payload,
   userId |-> userId, resourceId |-> resourceId, streamType |-> streamType,
   format |-> format, flaws |-> {}]

\* The text null: JSON.parse returns null for it
NullFrame == [Frame(TRUE, 0, "", "none", 0, 0, "", NoFormat) EXCEPT !.value = "null"]

\* The streams broker messages arrive for
MessageStreams == {<<1, "activity">>}

AuthenticationFrames(id, users) ==
  {Frame(TRUE, id, "authentication", "ok", u, 0, "", NoFormat) : u \in users}

SubscribeFrames(id, ss, formats) ==
  {Frame(TRUE, id, "subscribe", "ok", 0, s[1], s[2], f) : s \in ss, f \in formats}

\* What the clients send when two sockets are followed: both authenticate as
\* the first user and ask for the first stream; the second may also ask
\* for the streams that share its resource id or its stream type.
FramesOf(c, id) ==
  AuthenticationFrames(id, {1}) \cup
  SubscribeFrames(id,
    IF c = 1 THEN {<<1, "activity">>}
    ELSE {<<1, "activity">>, <<1, "notification">>, <<2, "activity">>},
    {NoFormat})

\* Frames that are no request, and requests that fail validation
FlawedFrames(id) ==
  {Frame(FALSE, 0, "", "none", 0, 0, "", NoFormat),                   \* not JSON
   NullFrame,
   Frame(TRUE, 0, "subscribe", "ok", 0, 1, "activity", NoFormat),     \* no id
   Frame(TRUE, 0, "authentication", "ok", 1, 0, "", NoFormat),        \* no id
   Frame(TRUE, id, "ping", "ok", 0, 0, "", NoFormat),                 \* neither kind of request
   Frame(TRUE, id, "authentication", "none", 0, 0, "", NoFormat),     \* no payload
   Frame(TRUE, id, "authentication", "ok", 0, 0, "", NoFormat),       \* no user id
   Frame(TRUE, id, "authentication", "badexpires", 1, 0, "", NoFormat),
   Frame(TRUE, id, "subscribe", "none", 0, 0, "", NoFormat),          \* no payload
   Frame(TRUE, id, "subscribe", "ok", 0, 0, "activity", NoFormat),    \* no resource id
   Frame(TRUE, id, "subscribe", "ok", 0, 1, "", NoFormat),            \* no stream type
   Frame(TRUE, id, "subscribe", "ok", 0, 1, "activity", "bogus"),     \* unknown format
   Frame(TRUE, id, "subscribe", "ok", 0, 1, "unknown", NoFormat),     \* unknown stream
   Frame(TRUE, id, "subscribe", "ok", 0, 0, "activity", "bogus"),     \* two or three flaws
   Frame(TRUE, id, "subscribe", "ok", 0, 1, "", "bogus"),
   Frame(TRUE, id, "subscribe", "ok", 0, 0, "unknown", NoFormat),
   Frame(TRUE, id, "subscribe", "ok", 0, 1, "unknown", "bogus"),
   Frame(TRUE, id, "subscribe", "ok", 0, 0, "unknown", "bogus")}

\* The parts of an authentication payload the validator checks
AuthenticationFlaws == {"tenantAlias", "userId", "signature", "expires", "signatureValue"}

\* Authentication frames whose payload fails one or several checks
FlawedAuthenticationFrames(id) ==
  {[Frame(TRUE, id, "authentication", "ok", 1, 0, "", NoFormat) EXCEPT !.flaws = fl] :
     fl \in SUBSET AuthenticationFlaws \ {{}}}

\* What the client sends when one socket is followed: it authenticates as any
\* user and asks for any of three streams in either format, or sends a frame
\* that is no request or a request that fails validation.
SoloFramesOf(c, id) ==
  AuthenticationFrames(id, Users) \cup
  SubscribeFrames(id, {<<1, "activity">>, <<1, "notification">>, <<2, "activity">>},
                  {NoFormat, "activitystreams"}) \cup
  FlawedFrames(id) \cup FlawedAuthenticationFrames(id)

\* What two orderly clients send: an authentication frame first, subscribe
\* frames for the first stream afterwards, the first client in either format.
OrderlyFramesOf(c, id) ==
  IF id = 1 THEN AuthenticationFrames(id, {1})
  ELSE SubscribeFrames(id, {<<1, "activity">>},
                       IF c = 1 THEN {NoFormat, "activitystreams"} ELSE {NoFormat})

\* An error response followed by socket.close()
rejectFrame(c, id, code, msg) ==
  /\ out' = socketWrite(out, c, ErrorResponse(id, code, msg))
  /\ sock' = socketClose(sock, c)
  /\ UNCHANGED <<ctx, streams, transformerTypes, authenticationTimeout,
                 connectionInfosPerStream, bound, pendVars, dispatch, authOk>>

\* An error response; the socket stays as it is
refuseRequest(c, id, code, msg) ==
  /\ out' = socketWrite(out, c, ErrorResponse(id, code, msg))
  /\ UNCHANGED <<connVars, connectionInfosPerStream, bound, pendVars, dispatch, authOk>>

\* The checks of _authenticate's two validation passes, in the order of the
\* code, each with the message of its error
FirstPass ==
  <<[field |-> "tenantAlias", msg |-> "A tenant needs to be provided"],
    [field |-> "userId", msg |-> "A userId needs to be provided"],
    [field |-> "signature", msg |-> "A signature object needs to be provided"]>>
SecondPass ==
  <<[field |-> "expires", msg |-> "Signature must contain an integer expires value"],
    [field |-> "signatureValue", msg |-> "Signature must contain a string signature value"]>>

\* The check of this part of the payload fails
failsCheck(frame, field) ==
  \/ field \in frame.flaws
  \/ field = "userId" /\ frame.userId = 0
  \/ field = "expires" /\ frame.payload = "badexpires"

\* Validator.prototype.error for every failing check: the validator's
\* _errors after the checks ran, in their order
RECURSIVE validate(_, _, _)
validate(errors, checks, frame) ==
  IF checks = <<>> THEN errors
  ELSE validate(IF failsCheck(frame, Head(checks).field)
                  THEN Append(errors, Head(checks).msg) ELSE errors,
                Tail(checks), frame)

\* Validator.prototype.hasErrors
hasErrors(errors) == Len(errors) > 0

\* The error recorded last
getLastError(errors) == IF Len(errors) > 0 THEN errors[Len(errors)] ELSE ""

\* Validator.prototype.getFirstError ("" for null)
getFirstError(errors) == IF Len(errors) > 0 THEN errors[1] ELSE ""

\* The error _authenticate reports for the payload of an authentication
\* frame, "" when it has none: the second pass runs on the same validator
\* and only when the first recorded no error
authenticationFirstError(frame) ==
  LET first == validate(<<>>, FirstPass, frame) IN
    IF hasErrors(first) THEN getFirstError(first)
    ELSE LET second == validate(first, SecondPass, frame) IN
      IF hasErrors(second) THEN getFirstError(second) ELSE ""

\* _authenticate: the payload is validated and the principal lookup started
_authenticate(c, frame) ==
  IF frame.payload = "none"
    THEN rejectFrame(c, frame.id, 400, "Missing data payload containing the userId and signature")
  ELSE IF authenticationFirstError(frame) # ""
    THEN rejectFrame(c, frame.id, 400, authenticationFirstError(frame))
  ELSE
    /\ pendingPrincipal' = pendingPrincipal \cup
         {[conn |-> c, id |-> frame.id, userId |-> frame.userId]}
    /\ UNCHANGED <<connVars, connectionInfosPerStream, bound, pendingAuthz,
                   pendingBind, pendingUnbind, pendingTransform, dispatch, out, authOk>>

\* _subscribe's first test
missingStreamProperties(frame) ==
  frame.payload = "none" \/ frame.resourceId = 0 \/ frame.streamType = ""

\* A test of the format that lets every format through
anyFormatAccepted(frame) == FALSE

\* _subscribe's test of the format
unknownFormat(frame) == frame.format # NoFormat /\ frame.format \notin TransformerTypes

\* _getAuthorizationHandler: the handler registered for the stream type, if any
hasAuthorizationHandler(streamType) == streamType \in StreamTypes

\* A refusal that also closes the socket
subscribeRefusedAndClosed(c, id, code, msg) == rejectFrame(c, id, code, msg)

\* _subscribe answers a request it refuses
subscribeRefused(c, id, code, msg) == refuseRequest(c, id, code, msg)

\* _subscribe: the request is validated and the stream's authorization
\* handler is called
_subscribe(c, frame) ==
  IF missingStreamProperties(frame)
    THEN subscribeRefused(c, frame.id, 400, "Missing stream properties")
  ELSE IF unknownFormat(frame)
    THEN subscribeRefused(c, frame.id, 400, "The specified stream format is unknown")
  ELSE IF ~hasAuthorizationHandler(frame.streamType)
    THEN subscribeRefused(c, frame.id, 400, "Unknown stream")
  ELSE
    /\ pendingAuthz' = pendingAuthz \cup
         {[conn |-> c, id |-> frame.id, resourceId |-> frame.resourceId,
           streamType |-> frame.streamType, format |-> frame.format]}
    /\ UNCHANGED <<connVars, connectionInfosPerStream, bound, pendingPrincipal,
                   pendingBind, pendingUnbind, pendingTransform, dispatch, out, authOk>>

\* A parser that accepts every text
parsesAnything(frame) == FALSE

\* JSON.parse throws
notJSON(frame) == ~frame.parsed

\* message.id is read of null: the handler ends with a TypeError, having
\* written nothing and closed nothing
readsIdOfNull(frame) == frame.value = "null"

\* The frame has no id
missingId(frame) == frame.id = 0

\* A gate that lets every frame through
noFirstFrameGate(c, frame) == FALSE

\* The first frame has to be an authentication frame
firstFrameIsNotAuthentication(c, frame) ==
  ctx[c] = NoCtx /\ frame.name # "authentication"

\* The number of frames all clients have sent
RECURSIVE FramesOfAll(_)
FramesOfAll(cs) ==
  IF cs = {} THEN 0
  ELSE LET c == CHOOSE x \in cs : TRUE IN nframes[c] + FramesOfAll(cs \ {c})
TotalFrames == FramesOfAll(Connections)

\* socket.on('data')
onData(c, frame) ==
  /\ sock[c] = "open"
  /\ nframes' = [nframes EXCEPT ![c] = @ + 1]
  /\ UNCHANGED nmessages
  /\ IF notJSON(frame) THEN rejectFrame(c, 0, 400, "Malformed message")
     ELSE IF readsIdOfNull(frame)
       THEN UNCHANGED <<connVars, connectionInfosPerStream, bound, pendVars,
                        dispatch, out, authOk>>
     ELSE IF missingId(frame) THEN rejectFrame(c, 0, 400, "Missing id on the message")
     ELSE IF firstFrameIsNotAuthentication(c, frame)
       THEN rejectFrame(c, frame.id, 401, "The first frame should be an authentication frame")
     ELSE IF frame.name = "authentication" THEN _authenticate(c, frame)
     ELSE IF frame.name = "subscribe" THEN _subscribe(c, frame)
     ELSE UNCHANGED <<connVars, connectionInfosPerStream, bound, pendVars,
                      dispatch, out, authOk>>

----------------------------------------------------------------------------
(***************************************************************************)
(* Authentication: the callback of PrincipalsDAO.getPrincipal.  err is the *)
(* lookup's error code (0: none); verified is the outcome of               *)
(* Signature.verifyExpiringResourceSignature.                              *)
(***************************************************************************)
LookupErrors == {0, 404}

\* The context stored on the connection once the principal was fetched
contextAfterLookup(c, p) == [ctx EXCEPT ![c] = p.userId]

\* The timer is left as it is
timerLeftArmed(c) == authenticationTimeout

\* clearTimeout: an armed timer never fires; otherwise nothing happens
clearTimeout(c) ==
  [authenticationTimeout EXCEPT ![c] = IF @ = "armed" THEN "cleared" ELSE @]

\* A verification that accepts every signature
signatureNotChecked(verified) == TRUE

\* Signature.verifyExpiringResourceSignature: its outcome for the frame's
\* user id, expires and signature
verifyExpiringResourceSignature(verified) == verified

getPrincipalCallback(p, err, verified) ==
  /\ p \in pendingPrincipal
  /\ pendingPrincipal' = pendingPrincipal \ {p}
  /\ IF err # 0
       THEN /\ out' = _writeResponse(out, p.conn, p.id, err)
            /\ sock' = socketClose(sock, p.conn)
            /\ UNCHANGED <<ctx, authenticationTimeout, authOk>>
       ELSE /\ ctx' = contextAfterLookup(p.conn, p)
            /\ IF ~verifyExpiringResourceSignature(verified)
                 THEN /\ out' = socketWrite(out, p.conn,
                                              ErrorResponse(p.id, 401, "Invalid signature"))
                      /\ sock' = socketClose(sock, p.conn)
                      /\ UNCHANGED <<authenticationTimeout, authOk>>
                 ELSE /\ authenticationTimeout' = clearTimeout(p.conn)
                      /\ out' = _writeResponse(out, p.conn, p.id, 0)
                      /\ authOk' = authOk \cup {p.conn}
                      /\ UNCHANGED sock
  /\ UNCHANGED <<streams, transformerTypes, connectionInfosPerStream, bound,
                 pendingAuthz, pendingBind, pendingUnbind, pendingTransform,
                 dispatch, nframes, nmessages>>

----------------------------------------------------------------------------
(***************************************************************************)
(* Subscription: the authorization handler's callback, _bindQueue and the  *)
(* callback of MQ.bindQueueToExchange.                                     *)
(***************************************************************************)
AuthzErrors == {0, 401}
BrokerErrors == {0, 500}

\* The format is remembered as the request gave it
formatAsRequested(format) == format

\* The transformer remembered by finish(): the requested format or INTERNAL
transformerTypeOf(format) == IF format = NoFormat THEN INTERNAL ELSE format

\* A finish() that remembers no transformer
formatForgotten(c, s, format) == transformerTypes

\* finish(): remember the transformer for the stream on the connection
finishTransformerTypes(c, s, format) ==
  [transformerTypes EXCEPT ![c][s] = Append(@, transformerTypeOf(format))]

\* A test that finds no stream tracked
neverTracked(c, s) == FALSE

\* _subscribe's test for a stream the connection already tracks
alreadySubscribed(c, s) == Contains(streams[c], s)

\* _bindQueue's test: a list exists for the stream, so call back at once
alreadyListening(s) == connectionInfosPerStream[s] # <<>>

\* Remember the socket in the stream's list
registerSocket(c, s) ==
  [connectionInfosPerStream EXCEPT ![s] = Append(@, c)]

authorizationCallback(a, err) ==
  LET c == a.conn
      s == createActivityStreamId(a.resourceId, a.streamType)
  IN
  /\ a \in pendingAuthz
  /\ pendingAuthz' = pendingAuthz \ {a}
  /\ IF err # 0
       THEN /\ out' = _writeResponse(out, c, a.id, err)
            /\ UNCHANGED <<streams, transformerTypes, connectionInfosPerStream,
                           pendingBind>>
       ELSE IF alreadySubscribed(c, s)
       THEN \* no need to bind: finish()
            /\ transformerTypes' = finishTransformerTypes(c, s, a.format)
            /\ out' = _writeResponse(out, c, a.id, 0)
            /\ UNCHANGED <<streams, connectionInfosPerStream, pendingBind>>
       ELSE /\ streams' = [streams EXCEPT ![c] = Append(@, s)]
            /\ IF alreadyListening(s)
                 THEN \* _bindQueue calls back immediately
                      /\ connectionInfosPerStream' = registerSocket(c, s)
                      /\ transformerTypes' = finishTransformerTypes(c, s, a.format)
                      /\ out' = _writeResponse(out, c, a.id, 0)
                      /\ UNCHANGED pendingBind
                 ELSE /\ pendingBind' = pendingBind \cup
                           {[conn |-> c, id |-> a.id, stream |-> s, format |-> a.format]}
                      /\ UNCHANGED <<connectionInfosPerStream, transformerTypes, out>>
  /\ UNCHANGED <<sock, ctx, authenticationTimeout, bound, pendingPrincipal,
                 pendingUnbind, pendingTransform, dispatch, nframes, nmessages, authOk>>

\* The broker after a bind call: the binding exists when the call succeeded
brokerAfterBind(s, err) == [bound EXCEPT ![s] = IF err = 0 THEN TRUE ELSE @]

\* The broker after an unbind call: the binding is gone when the call succeeded
brokerAfterUnbind(s, err) == [bound EXCEPT ![s] = IF err = 0 THEN FALSE ELSE @]

\* A bind call that failed is issued again
bindRetried(b, err) == IF err # 0 THEN pendingBind ELSE pendingBind \ {b}

\* The bind calls in flight after one called back: it is over, whatever
\* its outcome
bindsAfterCallback(b, err) == pendingBind \ {b}

bindCallback(b, err) ==
  /\ b \in pendingBind
  /\ pendingBind' = bindsAfterCallback(b, err)
  /\ bound' = brokerAfterBind(b.stream, err)
  /\ IF err # 0
       THEN /\ out' = _writeResponse(out, b.conn, b.id, err)
            /\ UNCHANGED <<connectionInfosPerStream, transformerTypes>>
       ELSE /\ connectionInfosPerStream' = registerSocket(b.conn, b.stream)
            /\ transformerTypes' = finishTransformerTypes(b.conn, b.stream, b.format)
            /\ out' = _writeResponse(out, b.conn, b.id, 0)
  /\ UNCHANGED <<sock, ctx, streams, authenticationTimeout, pendingPrincipal,
                 pendingAuthz, pendingUnbind, pendingTransform, dispatch, nframes,
                 nmessages, authOk>>

----------------------------------------------------------------------------
(***************************************************************************)
(* socket.on('close'): unbind the streams nobody else listens to and       *)
(* splice the socket out of the other lists.                               *)
(***************************************************************************)
\* The close handler's test for issuing an unbind for a stream of the socket
lastListener(s) == Len(connectionInfosPerStream[s]) = 1

\* The streams of the closing socket for which an unbind is issued
streamsToUnbind(c) ==
  {s \in StreamIds : Contains(streams[c], s) /\ alreadyListening(s) /\ lastListener(s)}

\* The lists after the close handler's loop: the socket is spliced out of
\* every list of its streams that holds more than one socket
listsAfterClose(c) ==
  [s \in StreamIds |->
     IF Contains(streams[c], s) /\ alreadyListening(s) /\ ~lastListener(s)
       THEN SpliceFirst(connectionInfosPerStream[s], c)
       ELSE connectionInfosPerStream[s]]

onClose(c) ==
  /\ sock[c] = "closing"
  /\ sock' = [sock EXCEPT ![c] = "closed"]
  /\ connectionInfosPerStream' = listsAfterClose(c)
  /\ pendingUnbind' = pendingUnbind \cup
       {[conn |-> c, stream |-> s] : s \in streamsToUnbind(c)}
  /\ UNCHANGED <<ctx, streams, transformerTypes, authenticationTimeout, bound,
                 pendingPrincipal, pendingAuthz, pendingBind, pendingTransform,
                 dispatch, out, nframes, nmessages, authOk>>

\* The list of a stream after its unbind called back: it is deleted
listsAfterUnbind(u, err) == [connectionInfosPerStream EXCEPT ![u.stream] = <<>>]

unbindCallback(u, err) ==
  /\ u \in pendingUnbind
  /\ pendingUnbind' = pendingUnbind \ {u}
  /\ bound' = brokerAfterUnbind(u.stream, err)
  /\ connectionInfosPerStream' = listsAfterUnbind(u, err)
  /\ UNCHANGED <<connVars, pendingPrincipal, pendingAuthz, pendingBind,
                 pendingTransform, dispatch, out, nframes, nmessages, authOk>>

----------------------------------------------------------------------------
(***************************************************************************)
(* _handlePushActivity: a message arrived on the node's queue.  The        *)
(* message is identified by its number; dispatch[m] holds its routing      *)
(* fields, the number of (socket, transformer) pairs of the two loops, the *)
(* handler's todo counter, the number of transforms that have called back, *)
(* and, for every invocation of the handler's callback, the number of      *)
(* transforms that had called back by then.  The transformer is an         *)
(* external collaborator: it may call back before it returns (with success *)
(* or with an error) or later.                                             *)
(***************************************************************************)
TransformErrors == {0, 500}
TransformTimings == {"later", "ok", "error"}

\* The (socket, transformer) pairs the two nested loops visit, in order
RECURSIVE deliveries(_, _)
deliveries(conns, s) ==
  IF conns = <<>> THEN <<>>
  ELSE [k \in 1..Len(transformerTypes[Head(conns)][s]) |->
          [conn |-> Head(conns), format |-> transformerTypes[Head(conns)][s][k]]]
       \o deliveries(Tail(conns), s)

\* The broker routes a message to this node's queue when the queue is bound
\* to its topic, which may be so before the bind call has called back
routedToThisNode(s) == bound[s] \/ \E b \in pendingBind : b.stream = s

\* A stream id that forgets the stream type of the message
streamIdOfResource(resourceId, streamType) ==
  createActivityStreamId(resourceId, "notification")

\* The stream id _handlePushActivity looks the sockets up with
messageStreamId(resourceId, streamType) ==
  createActivityStreamId(resourceId, streamType)

\* data.activities of broker message m, and what the transformer makes
\* of activities it is given: it changes them in place
Payload(m) == [message |-> m, transformed |-> <<>>]
transformActivities(activities, transformerType) ==
  [activities EXCEPT !.transformed = Append(@, transformerType)]

\* data.numNewActivities of a broker message; 0 when the message has none
NumNewActivities == {0, 2}

\* The objects of one dispatch: object 0 is data.activities, object k the
\* activities handed to the transformer for pair k.
\* Every pair is handed data.activities itself
sharedPayload(k) == 0

\* clone(data.activities): pair k is handed an object of its own
ownClone(k) == k

\* The push frame written for one delivery
msgData(resourceId, streamType, activities, format, numNewActivities) ==
  [resourceId |-> resourceId, streamType |-> streamType,
   activities |-> activities, format |-> format, numNewActivities |-> numNewActivities]

\* The frame of message m in a format, transformed from the message's payload
PushFrame(m, format) ==
  msgData(dispatch[m].resourceId, dispatch[m].streamType,
          transformActivities(Payload(m), format), format, dispatch[m].numNewActivities)

\* A transform error that is sent to the socket
transformErrorWritten(d, o, conn, frame, err) ==
  [todo |-> IF err = 0 THEN d.todo - 1 ELSE d.todo,
   completed |-> d.completed + 1,
   calledAfter |-> IF err = 0 /\ d.todo - 1 = 0
                     THEN Append(d.calledAfter, d.completed + 1) ELSE d.calledAfter,
   out |-> IF err = 0 THEN socketWrite(o, conn, frame) ELSE _writeResponse(o, conn, 0, err)]

\* The callback of transformActivities for one delivery, on the counters d of
\* the message and the sockets' output o: an error is logged and nothing
\* else; otherwise the frame is written, todo is decremented and the
\* handler's callback is invoked when todo is 0
transformed(d, o, conn, frame, err) ==
  IF err # 0
    THEN [todo |-> d.todo, completed |-> d.completed + 1,
          calledAfter |-> d.calledAfter, out |-> o]
    ELSE [todo |-> d.todo - 1, completed |-> d.completed + 1,
          calledAfter |-> IF d.todo - 1 = 0
                            THEN Append(d.calledAfter, d.completed + 1)
                            ELSE d.calledAfter,
          out |-> socketWrite(o, conn, frame)]

\* The two loops from pair k on: the clone, todo++ and the call of the
\* transformer, which calls back at once when timing[k] says so.  st holds
\* the counters and output (d), the objects (heap) and what each
\* transformer call was handed (given).
RECURSIVE dispatchLoop(_, _, _, _, _)
dispatchLoop(k, pairs, timing, data, st) ==
  IF k > Len(pairs) THEN st
  ELSE LET ref == ownClone(k)
           cloned == IF ref = 0 THEN st.heap ELSE [st.heap EXCEPT ![ref] = st.heap[0]]
           started == [st.d EXCEPT !.todo = @ + 1]
           mutated ==
             IF timing[k] = "ok"
               THEN [cloned EXCEPT ![ref] = transformActivities(@, pairs[k].format)]
               ELSE cloned
           frame == msgData(data.resourceId, data.streamType, mutated[ref],
                            pairs[k].format, data.numNewActivities)
           after ==
             IF timing[k] = "later" THEN started
             ELSE transformed(started, started.out, pairs[k].conn, frame,
                              IF timing[k] = "ok" THEN 0 ELSE 500)
       IN dispatchLoop(k + 1, pairs, timing, data,
                       [d |-> after, heap |-> mutated, given |-> Append(st.given, cloned[ref])])

\* The handler's effect when the transformer's calls complete as timing says
handlePushActivityWith(data, pairs, timing) ==
  LET m == nmessages + 1
      st == dispatchLoop(1, pairs, timing, data,
                         [d |-> [todo |-> 0, completed |-> 0, calledAfter |-> <<>>,
                                 out |-> out],
                          heap |-> [i \in 0..Len(pairs) |-> Payload(m)],
                          given |-> <<>>])
  IN
  /\ nmessages' = m
  /\ dispatch' = Append(dispatch, [resourceId |-> data.resourceId,
                                   streamType |-> data.streamType,
                                   numNewActivities |-> data.numNewActivities,
                                   pairs |-> Len(pairs), todo |-> st.d.todo,
                                   completed |-> st.d.completed,
                                   calledAfter |-> st.d.calledAfter,
                                   heap |-> st.heap, given |-> st.given])
  /\ out' = st.d.out
  /\ pendingTransform' = pendingTransform \cup
       {[msg |-> m, idx |-> k, conn |-> pairs[k].conn, format |-> pairs[k].format] :
          k \in {j \in 1..Len(pairs) : timing[j] = "later"}}

_handlePushActivity(resourceId, streamType) ==
  LET s == messageStreamId(resourceId, streamType)
      pairs == deliveries(connectionInfosPerStream[s], s)
  IN
  /\ nmessages < MaxMessages
  /\ routedToThisNode(createActivityStreamId(resourceId, streamType))
  /\ \E timing \in [1..Len(pairs) -> TransformTimings], n \in NumNewActivities :
       handlePushActivityWith([resourceId |-> resourceId, streamType |-> streamType,
                               numNewActivities |-> n], pairs, timing)
  /\ UNCHANGED <<connVars, connectionInfosPerStream, bound, pendingPrincipal,
                 pendingAuthz, pendingBind, pendingUnbind, nframes, authOk>>

\* The callback of ActivityTransformer.transformActivities, called later
transformCallback(t, err) ==
  LET ref == ownClone(t.idx)
      heap == dispatch[t.msg].heap
      mutated == IF err = 0 THEN [heap EXCEPT ![ref] = transformActivities(@, t.format)]
                 ELSE heap
      frame == msgData(dispatch[t.msg].resourceId, dispatch[t.msg].streamType,
                       mutated[ref], t.format, dispatch[t.msg].numNewActivities)
      d == transformed([todo |-> dispatch[t.msg].todo,
                        completed |-> dispatch[t.msg].completed,
                        calledAfter |-> dispatch[t.msg].calledAfter, out |-> out],
                       out, t.conn, frame, err)
  IN
  /\ t \in pendingTransform
  /\ pendingTransform' = pendingTransform \ {t}
  /\ out' = d.out
  /\ dispatch' = [dispatch EXCEPT ![t.msg] =
                    [@ EXCEPT !.todo = d.todo, !.completed = d.completed,
                              !.calledAfter = d.calledAfter, !.heap = mutated]]
  /\ UNCHANGED <<connVars, connectionInfosPerStream, bound, pendingPrincipal,
                 pendingAuthz, pendingBind, pendingUnbind, nframes, nmessages, authOk>>

----------------
\* The frames a client of the given kind may send as frame number id
FramesSent(clients, c, id) ==
  CASE clients = "any" -> FramesOf(c, id)
    [] clients = "solo" -> SoloFramesOf(c, id)
    [] clients = "orderly" -> OrderlyFramesOf(c, id)

\* The steps of the sockets cs, whose clients are of the given kind and send
\* at most total frames together
NextOf(cs, clients, total) ==
  \/ \E c \in cs : registerConnection(c) /\ UNCHANGED <<hookVars, startupVars, apiVars>>
  \/ \E c \in cs : authenticationTimeoutFires(c) /\ UNCHANGED <<hookVars, startupVars, apiVars>>
  \/ \E c \in cs : clientDisconnect(c) /\ UNCHANGED <<hookVars, startupVars, apiVars>>
  \/ \E c \in cs :
       /\ TotalFrames < total
       /\ nframes[c] < MaxFramesPerConnection
       /\ \E frame \in FramesSent(clients, c, nframes[c] + 1) : onData(c, frame)
       /\ UNCHANGED <<hookVars, startupVars, apiVars>>
  \/ \E p \in pendingPrincipal, err \in LookupErrors, verified \in BOOLEAN :
       getPrincipalCallback(p, err, verified) /\ UNCHANGED <<hookVars, startupVars, apiVars>>
  \/ \E a \in pendingAuthz, err \in AuthzErrors :
       authorizationCallback(a, err) /\ UNCHANGED <<hookVars, startupVars, apiVars>>
  \/ \E b \in pendingBind, err \in BrokerErrors : bindCallback(b, err) /\ UNCHANGED <<hookVars, startupVars, apiVars>>
  \/ \E c \in cs : onClose(c) /\ UNCHANGED <<hookVars, startupVars, apiVars>>
  \/ \E u \in pendingUnbind, err \in BrokerErrors :
       unbindCallback(u, err) /\ UNCHANGED <<hookVars, startupVars, apiVars>>
  \/ \E s \in MessageStreams : _handlePushActivity(s[1], s[2]) /\ UNCHANGED <<hookVars, startupVars, apiVars>>
  \/ \E t \in pendingTransform, err \in TransformErrors :
       transformCallback(t, err) /\ UNCHANGED <<hookVars, startupVars, apiVars>>

\* Two sockets, any frame at any time
Next == NextOf(Connections, "any", MaxFrames)
Spec == Init /\ [][Next]_vars

\* One socket with the wider choice of frames
NextSolo == NextOf({1}, "solo", MaxFramesPerConnection)
SpecSolo == Init /\ [][NextSolo]_vars

\* Two sockets of orderly clients
NextOrderly == NextOf(Connections, "orderly", MaxOrderlyFrames)
SpecOrderly == Init /\ [][NextOrderly]_vars

----------------------------------------------------------------------------
(***************************************************************************)
(* The two listeners on the activity pipeline.  An activity is routed to   *)
(* targets (resource id, stream type), and what was routed may later be    *)
(* delivered, aggregated, to some of them.  published records each         *)
(* submission to the push exchange: the listener, the activity, and the    *)
(* data's resource id and stream type.                                     *)
(***************************************************************************)
Targets == Resources \X StreamTypes

\* _push: MQ.submit to the exchange with the stream's id as routing key
_push(hook, e, resourceId, streamType) ==
  [hook |-> hook, event |-> e, routingKey |-> createActivityStreamId(resourceId, streamType),
   resourceId |-> resourceId, streamType |-> streamType]

\* A listener that pushes whatever the phase
pushesInAnyPhase(streamType) == TRUE

\* The routed listener's test of the stream type's options
pushesWhenRouted(streamType) == phase[streamType] # "aggregation"

\* The delivered listener's test of the stream type's options
pushesWhenDelivered(streamType) == phase[streamType] = "aggregation"

\* ActivityEmitter.on(ROUTED_ACTIVITIES): activity e was routed to the targets
onRoutedActivities(e, routedActivities) ==
  /\ events[e].routed = {}
  /\ events' = [events EXCEPT ![e].routed = routedActivities]
  /\ published' = published \cup
       {_push("routed", e, target[1], target[2]) :
          target \in {x \in routedActivities : pushesWhenRouted(x[2])}}
  /\ UNCHANGED <<phase, connVars, connectionInfosPerStream, bound, pendVars, dispatch,
                 out, nframes, nmessages, authOk, startupVars, apiVars>>

\* ActivityEmitter.on(DELIVERED_ACTIVITIES): activity e was delivered to the
\* targets
onDeliveredActivities(e, deliveredActivities) ==
  /\ events[e].delivered = {}
  /\ deliveredActivities \subseteq events[e].routed
  /\ events' = [events EXCEPT ![e].delivered = deliveredActivities]
  /\ published' = published \cup
       {_push("delivered", e, target[1], target[2]) :
          target \in {x \in deliveredActivities : pushesWhenDelivered(x[2])}}
  /\ UNCHANGED <<phase, connVars, connectionInfosPerStream, bound, pendVars, dispatch,
                 out, nframes, nmessages, authOk, startupVars, apiVars>>

\* The stream types are registered with any phase
InitPublish ==
  /\ InitConnections
  /\ phase \in [StreamTypes -> DeliveryPhases]
  /\ InitHooks
  /\ InitStarted
  /\ InitApi

NextPublish ==
  \/ \E e \in 1..MaxEvents, routedActivities \in SUBSET Targets \ {{}} :
       onRoutedActivities(e, routedActivities)
  \/ \E e \in 1..MaxEvents, deliveredActivities \in SUBSET Targets \ {{}} :
       onDeliveredActivities(e, deliveredActivities)

\* The activity pipeline and the two listeners
SpecPublish == InitPublish /\ [][NextPublish]_vars

----------------------------------------------------------------------------
(***************************************************************************)
(* init: the exchange is declared, then the node's queue, then the queue   *)
(* is consumed from.  mqCalls[n] lists the calls node n made, each with    *)
(* its outcome once it called back.                                        *)
(***************************************************************************)
\* The last call of the node is the given operation and has not called back
awaits(n, op) ==
  /\ mqCalls[n] # <<>>
  /\ mqCalls[n][Len(mqCalls[n])].op = op
  /\ mqCalls[n][Len(mqCalls[n])].result = Pending

\* The node's calls once the last one called back with err
calledBack(n, err) == [mqCalls[n] EXCEPT ![Len(mqCalls[n])].result = err]

\* A test that takes every declaration for successful
declarationNeverFails(err) == FALSE

\* The callbacks' test: if (err)
declarationFailed(err) == err # 0

\* init(callback): MQ.declareExchange
init(n) ==
  /\ mqCalls[n] = <<>>
  /\ mqCalls' = [mqCalls EXCEPT ![n] = <<MQCall("declareExchange", "", Pending)>>]
  /\ UNCHANGED <<initResult, connVars, connectionInfosPerStream, bound, pendVars,
                 dispatch, out, nframes, nmessages, authOk, hookVars, apiVars>>

\* The callback of MQ.declareExchange: the queue is named and declared
declareExchangeCallback(n, err, name) ==
  /\ awaits(n, "declareExchange")
  /\ IF declarationFailed(err)
       THEN /\ mqCalls' = [mqCalls EXCEPT ![n] = calledBack(n, err)]
            /\ initResult' = [initResult EXCEPT ![n] = Append(@, err)]
       ELSE /\ mqCalls' = [mqCalls EXCEPT ![n] =
                             Append(calledBack(n, err), MQCall("declareQueue", name, Pending))]
            /\ UNCHANGED initResult
  /\ UNCHANGED <<connVars, connectionInfosPerStream, bound, pendVars,
                 dispatch, out, nframes, nmessages, authOk, hookVars, apiVars>>

\* The callback of MQ.declareQueue: the queue is consumed from
declareQueueCallback(n, err) ==
  /\ awaits(n, "declareQueue")
  /\ IF declarationFailed(err)
       THEN /\ mqCalls' = [mqCalls EXCEPT ![n] = calledBack(n, err)]
            /\ initResult' = [initResult EXCEPT ![n] = Append(@, err)]
       ELSE /\ mqCalls' = [mqCalls EXCEPT ![n] =
                             Append(calledBack(n, err),
                                    MQCall("subscribeQueue",
                                           mqCalls[n][Len(mqCalls[n])].queue, Pending))]
            /\ UNCHANGED initResult
  /\ UNCHANGED <<connVars, connectionInfosPerStream, bound, pendVars,
                 dispatch, out, nframes, nmessages, authOk, hookVars, apiVars>>

\* MQ.subscribeQueue calls init's callback
subscribeQueueCallback(n, err) ==
  /\ awaits(n, "subscribeQueue")
  /\ mqCalls' = [mqCalls EXCEPT ![n] = calledBack(n, err)]
  /\ initResult' = [initResult EXCEPT ![n] = Append(@, err)]
  /\ UNCHANGED <<connVars, connectionInfosPerStream, bound, pendVars,
                 dispatch, out, nframes, nmessages, authOk, hookVars, apiVars>>

\* No node has started
InitStartup ==
  /\ InitConnections
  /\ phase = [t \in StreamTypes |-> IF t = "notification" THEN "aggregation" ELSE "none"]
  /\ InitHooks
  /\ mqCalls = [n \in Nodes |-> <<>>]
  /\ initResult = [n \in Nodes |-> <<>>]
  /\ InitApi

NextStartup ==
  \/ \E n \in Nodes : init(n)
  \/ \E n \in Nodes, err \in BrokerErrors, name \in QueueNames :
       declareExchangeCallback(n, err, name)
  \/ \E n \in Nodes, err \in BrokerErrors : declareQueueCallback(n, err)
  \/ \E n \in Nodes, err \in BrokerErrors : subscribeQueueCallback(n, err)

\* The start of the nodes
SpecStartup == InitStartup /\ [][NextStartup]_vars

----------------------------------------------------------------------------
(***************************************************************************)
(* FollowingAPI.follow: the request is validated, the followed user is     *)
(* fetched, the permission is checked, the stored follows are read and,    *)
(* when the user does not follow yet, the follow is saved and the FOLLOW   *)
(* event emitted.  followCalls lists the calls; each callback of a         *)
(* collaborator is a step of its own.                                      *)
(***************************************************************************)
MaxFollowCalls == 2

\* ctx.user() of an anonymous context
Anonymous == 0
\* A followedUserId that is no user id
NoUserId == 0

\* The errors FollowingDAO and the emitter's handlers call back with (0: none)
DAOErrors == {0, 500}

\* What the follow actions leave alone
serverVars == <<connVars, connectionInfosPerStream, bound, pendVars, dispatch, out,
                nframes, nmessages, authOk, hookVars, startupVars>>

\* An error recorded in front of the earlier ones
recordFirst(errors, failed, msg) == IF failed THEN <<msg>> \o errors ELSE errors

\* Validator.prototype.error when the check failed
recordIf(errors, failed, msg) == IF failed THEN Append(errors, msg) ELSE errors

\* isLoggedInUser(ctx) fails
notLoggedIn(user) == user = Anonymous

\* isUserId() fails
notUserId(id) == id = NoUserId

\* follow's two checks: the validator's _errors after them
followValidation(user, followedUserId) ==
  recordIf(recordIf(<<>>, notLoggedIn(user),
                    [code |-> 401, msg |-> "You must be authenticated to follow a user"]),
           notUserId(followedUserId),
           [code |-> 400, msg |-> "You must specify a valid user id of a user to follow"])

\* A lookup that finds nobody followed
followsNobody(user, followedUserId) == FALSE

\* FollowingDAO.isFollowing and the test following[followedUserId]
isFollowing(user, followedUserId) == <<user, followedUserId>> \in following

\* Call k awaits the callback of the given collaborator
followAwaits(k, at) == k \in DOMAIN followCalls /\ followCalls[k].at = at

\* Call k ends: follow's callback is invoked with err
followCallback(k, err) ==
  [followCalls EXCEPT ![k].at = "done", ![k].callback = Append(@, err)]

\* Call k goes on to the next collaborator
followGoesOn(k, at) == [followCalls EXCEPT ![k].at = at]

\* follow(ctx, followedUserId, callback)
follow(user, followedUserId) ==
  /\ Len(followCalls) < MaxFollowCalls
  /\ LET errors == followValidation(user, followedUserId)
         call == [user |-> user, followedUserId |-> followedUserId,
                  followed |-> <<user, followedUserId>> \in following,
                  failed |-> "", saves |-> 0, saved |-> 0, emitted |-> 0]
     IN followCalls' = Append(followCalls,
          IF hasErrors(errors)
            THEN call @@ [at |-> "done", callback |-> <<getFirstError(errors).code>>]
            ELSE call @@ [at |-> "getPrincipal", callback |-> <<>>])
  /\ UNCHANGED <<following, serverVars, validatorVars>>

\* The callback of PrincipalsDAO.getPrincipal(followedUserId)
followedUserCallback(k, err) ==
  /\ followAwaits(k, "getPrincipal")
  /\ followCalls' = IF err # 0
                      THEN [followCallback(k, err) EXCEPT ![k].failed = "getPrincipal"]
                      ELSE followGoesOn(k, "canFollow")
  /\ UNCHANGED <<following, serverVars, validatorVars>>

\* The callback of FollowingAuthz.canFollow
canFollowCallback(k, err) ==
  /\ followAwaits(k, "canFollow")
  /\ followCalls' = IF err # 0
                      THEN [followCallback(k, err) EXCEPT ![k].failed = "canFollow"]
                      ELSE followGoesOn(k, "isFollowing")
  /\ UNCHANGED <<following, serverVars, validatorVars>>

\* The callback of FollowingDAO.isFollowing: a user who follows already is
\* answered at once, for any other the follow is saved
isFollowingCallback(k, err) ==
  /\ followAwaits(k, "isFollowing")
  /\ followCalls' =
       IF err # 0 THEN [followCallback(k, err) EXCEPT ![k].failed = "isFollowing"]
       ELSE IF isFollowing(followCalls[k].user, followCalls[k].followedUserId)
         THEN followCallback(k, 0)
         ELSE [followGoesOn(k, "saveFollows") EXCEPT ![k].saves = @ + 1]
  /\ UNCHANGED <<following, serverVars, validatorVars>>

\* The callback of FollowingDAO.saveFollows: the FOLLOW event is emitted
saveFollowsCallback(k, err) ==
  /\ followAwaits(k, "saveFollows")
  /\ IF err # 0
       THEN /\ followCalls' = [followCallback(k, err) EXCEPT ![k].failed = "saveFollows"]
            /\ UNCHANGED following
       ELSE /\ following' = following \cup
                              {<<followCalls[k].user, followCalls[k].followedUserId>>}
            /\ followCalls' = [followGoesOn(k, "emit") EXCEPT ![k].saved = @ + 1,
                                                               ![k].emitted = @ + 1]
  /\ UNCHANGED <<serverVars, validatorVars>>

\* The emitter calls follow's callback once the handlers of FOLLOW are done
emitFollowCallback(k, err) ==
  /\ followAwaits(k, "emit")
  /\ followCalls' = followCallback(k, err)
  /\ UNCHANGED <<following, serverVars, validatorVars>>

InitFollow ==
  /\ InitConnections
  /\ phase = [t \in StreamTypes |-> IF t = "notification" THEN "aggregation" ELSE "none"]
  /\ InitHooks
  /\ InitStarted
  /\ InitApi

NextFollow ==
  \/ \E user \in Users \cup {Anonymous}, followedUserId \in Users \cup {NoUserId} :
       follow(user, followedUserId)
  \/ \E k \in 1..MaxFollowCalls, err \in LookupErrors : followedUserCallback(k, err)
  \/ \E k \in 1..MaxFollowCalls, err \in AuthzErrors : canFollowCallback(k, err)
  \/ \E k \in 1..MaxFollowCalls, err \in DAOErrors : isFollowingCallback(k, err)
  \/ \E k \in 1..MaxFollowCalls, err \in DAOErrors : saveFollowsCallback(k, err)
  \/ \E k \in 1..MaxFollowCalls, err \in DAOErrors : emitFollowCallback(k, err)

\* Users following users
SpecFollow == InitFollow /\ [][NextFollow]_vars

----------------------------------------------------------------------------
(***************************************************************************)
(* The Validator wrapper (oae-authz/lib/validator): a failing check calls  *)
(* Validator.prototype.error, which records the check's message; the       *)
(* getters read the recorded errors.  "" stands for null.                  *)
(***************************************************************************)
MaxChecks == 4

\* The messages checks are made with
ValidationMessages == {"A tenant needs to be provided", "A userId needs to be provided"}

\* Validator.prototype.getErrorCount
getErrorCount(errors) == Len(errors)

\* Validator.prototype.getErrors
getErrors(errors) == IF Len(errors) > 0 THEN errors ELSE ""

\* validator.check(value, msg) followed by a validation method, which calls
\* this.error(msg) when the value fails it
check(msg, failed) ==
  /\ Len(checked) < MaxChecks
  /\ checked' = Append(checked, [msg |-> msg, failed |-> failed])
  /\ _errors' = recordIf(_errors, failed, msg)
  /\ UNCHANGED <<serverVars, followVars>>

InitValidation ==
  /\ InitConnections
  /\ phase = [t \in StreamTypes |-> IF t = "notification" THEN "aggregation" ELSE "none"]
  /\ InitHooks
  /\ InitStarted
  /\ InitApi

NextValidation ==
  \E msg \in ValidationMessages, failed \in BOOLEAN : check(msg, failed)

\* One Validator and the checks made on it
SpecValidation == InitValidation /\ [][NextValidation]_vars

----------------------------------------------------------------------------
(***************************************************************************)
(* Properties                                                              *)
(***************************************************************************)
\* Some call made on behalf of a subscribe frame of the socket is in flight,
\* or the registry or the socket's own records show a subscription
SubscribeTouched(c) ==
  \/ \E a \in pendingAuthz : a.conn = c
  \/ \E b \in pendingBind : b.conn = c
  \/ \E u \in pendingUnbind : u.conn = c
  \/ streams[c] # <<>>
  \/ \E s \in StreamIds : transformerTypes[c][s] # <<>>
  \/ \E s \in StreamIds : Contains(connectionInfosPerStream[s], c)

\* Every frame a client of some specification may send
AnyFrame(c, id) == FramesOf(c, id) \cup SoloFramesOf(c, id) \cup OrderlyFramesOf(c, id)

\* The step is socket c receiving this frame
Receives(c, frame) == onData(c, frame)

\* C1: no subscribe frame is processed (no authorization handler call, no
\* bind, no registry change) on a socket before an authentication frame
\* succeeded on it, and a frame with an id that is not an authentication
\* frame, arriving before that (also while a principal lookup is pending),
\* is answered with error 401 keyed to its id and the socket is closed.
C1_AuthenticationGate ==
  /\ [](\A c \in Connections : SubscribeTouched(c) => c \in authOk)
  /\ [][\A c \in Connections : \A frame \in AnyFrame(c, nframes[c] + 1) :
          (Receives(c, frame) /\ c \notin authOk /\ frame.parsed /\ frame.id # 0
             /\ frame.name # "authentication")
          => /\ out'[c] = out[c] (+) SetToBag({ErrorResponse(frame.id, 401,
                               "The first frame should be an authentication frame")})
             /\ sock'[c] = "closing"
             /\ pendingAuthz' = pendingAuthz]_vars

\* A subscribe frame arrived while the lookup of the socket's authentication
\* frame was pending, and was answered 401
C1_Witness ==
  \E c \in Connections :
    /\ \E p \in pendingPrincipal : p.conn = c /\ p.id = 1
    /\ nframes[c] = 2
    /\ ErrorResponse(2, 401, "The first frame should be an authentication frame") \in Written(c)
    /\ sock[c] = "closing"
    /\ ~SubscribeTouched(c)

\* The stream of a broker message
MessageStream(m) == createActivityStreamId(dispatch[m].resourceId, dispatch[m].streamType)
\* The stream a push frame names
FrameStream(frame) == createActivityStreamId(frame.resourceId, frame.streamType)

\* C2: a broker message for a stream is handed only to sockets in the
\* dispatch list of exactly that stream, so a socket receives push frames
\* only for streams it subscribed to itself: one that subscribed only to
\* (r1, notification) or to (r2, activity) gets no frame for (r1, activity).
C2_NoConflation ==
  /\ [](\A c \in Connections : \A frame \in Written(c) :
          IsPush(frame) => Contains(streams[c], FrameStream(frame)))
  /\ [][\A t \in pendingTransform' \ pendingTransform :
          Contains(connectionInfosPerStream[
                     createActivityStreamId(dispatch'[t.msg].resourceId,
                                            dispatch'[t.msg].streamType)], t.conn)]_vars
  /\ [][nmessages' # nmessages =>
          \A c \in Connections :
            out'[c] # out[c]
            => Contains(connectionInfosPerStream[
                          createActivityStreamId(dispatch'[nmessages'].resourceId,
                                                 dispatch'[nmessages'].streamType)], c)]_vars

\* The first socket got a push frame for (1, activity) while the second,
\* registered for another stream of the same resource or of the same type,
\* got none
C2_Witness ==
  /\ \E frame \in Written(1) : IsPush(frame) /\ FrameStream(frame) = <<1, "activity">>
  /\ \E s \in {<<1, "notification">>, <<2, "activity">>} :
        /\ streams[2] = <<s>>
        /\ Contains(connectionInfosPerStream[s], 2)
  /\ \A frame \in Written(2) : ~IsPush(frame)
  /\ pendingTransform = {}

\* C3: at most one broker bind call is made for a stream until an unbind is
\* issued for it: as long as no socket has closed (the close handler alone
\* issues unbinds), two bind calls for one stream are never in flight
\* together, however the subscribe requests and bind completions interleave.
C3_AtMostOneBindCall ==
  (\A c \in Connections : sock[c] # "closed")
  => \A s \in StreamIds : Cardinality({b \in pendingBind : b.stream = s}) <= 1

\* No bind or unbind call for the stream is in flight
Quiet(s) ==
  /\ \A b \in pendingBind : b.stream # s
  /\ \A u \in pendingUnbind : u.stream # s

\* C4: when no bind or unbind call for a stream is in flight, the queue is
\* bound to its topic exactly if the stream's list of sockets is not empty.
C4_BoundIffListed ==
  \A s \in StreamIds : Quiet(s) => (bound[s] <=> connectionInfosPerStream[s] # <<>>)

\* C5: when a socket closes, an unbind call is made for a stream exactly
\* when that socket was the last one subscribed to it; otherwise only the
\* closing socket is spliced out of the list.
C5_UnbindOnlyForLast ==
  [][\A c \in Connections : onClose(c) =>
       \A s \in StreamIds :
         /\ ([conn |-> c, stream |-> s] \in pendingUnbind')
              <=> (connectionInfosPerStream[s] = <<c>>)
         /\ connectionInfosPerStream[s] # <<c>> =>
              connectionInfosPerStream'[s] = SpliceFirst(connectionInfosPerStream[s], c)]_vars

\* Both of the socket's subscribe requests for the stream, in two formats,
\* were answered with success and nothing of the socket is in flight
SubscribedInTwoFormats(c, s) ==
  /\ sock[c] = "open"
  /\ Len(transformerTypes[c][s]) = 2
  /\ transformerTypes[c][s][1] # transformerTypes[c][s][2]
  /\ \A a \in pendingAuthz : a.conn # c
  /\ \A b \in pendingBind : b.conn # c

\* C6: once a socket subscribed to a stream twice in two formats, every
\* broker message for the stream is delivered to it twice, once per format,
\* and the second subscribe made no broker call: it appended its format
\* and answered with success.
C6_TwoFormatsTwoDeliveries ==
  /\ [][\A c \in Connections : \A s \in MessageStreams :
          (_handlePushActivity(s[1], s[2]) /\ SubscribedInTwoFormats(c, s))
          => LET pairs == deliveries(connectionInfosPerStream[s], s) IN
             /\ Cardinality({k \in 1..Len(pairs) : pairs[k].conn = c}) = 2
             /\ dispatch'[nmessages'].pairs = Len(pairs)]_vars
  /\ [][\A a \in pendingAuthz :
          (authorizationCallback(a, 0)
             /\ alreadySubscribed(a.conn, createActivityStreamId(a.resourceId, a.streamType)))
          => /\ pendingBind' = pendingBind
             /\ out'[a.conn] = out[a.conn] (+) SetToBag({Response(a.id, 0)})]_vars

\* C7: an open socket whose authentication has not completed when its
\* authentication timer fires is sent an error response with replyTo 0 and
\* is closed; once a socket's authentication completed its timer is no
\* longer pending, and the timer never closes or writes to such a socket.
C7_AuthenticationTimeout ==
  /\ [][\A c \in Connections :
          (authenticationTimeoutFires(c) /\ sock[c] = "open" /\ c \notin authOk)
          => /\ out'[c] = out[c] (+) SetToBag({ErrorResponse(0, 400, TimeoutMsg)})
             /\ sock'[c] = "closing"]_vars
  /\ [](\A c \in authOk : authenticationTimeout[c] # "armed")
  /\ [][\A c \in Connections :
          (authenticationTimeoutFires(c) /\ c \in authOk)
          => (sock'[c] = sock[c] /\ out'[c] = out[c])]_vars

\* One socket was closed by its timer with the timeout error, the other
\* authenticated in time and is open with its timer cleared
C7_Witness ==
  \E c, d \in Connections :
    /\ authenticationTimeout[c] = "fired" /\ c \notin authOk
    /\ out[c] = SetToBag({ErrorResponse(0, 400, TimeoutMsg)}) /\ sock[c] = "closing"
    /\ authenticationTimeout[d] = "cleared" /\ d \in authOk /\ sock[d] = "open"

\* C8: after a successful authentication no later frame changes the
\* context attached to the socket.
C8_ContextSetOnce ==
  [][\A c \in Connections : c \in authOk => ctx'[c] = ctx[c]]_vars

\* C9: a socket is added to a stream's list only when the node's binding for
\* the stream is established: a bind succeeded and no unbind is under way.
C9_BoundBeforeListed ==
  [][\A s \in StreamIds : \A c \in Connections :
       (~Contains(connectionInfosPerStream[s], c) /\ Contains(connectionInfosPerStream'[s], c))
       => (bound'[s] /\ \A u \in pendingUnbind : u.stream # s)]_vars

\* C10: a success response to a subscribe request is sent only when the
\* bind for its stream has completed and the socket is in the stream's list.
C10_AckAfterBindAndListed ==
  /\ [][\A a \in pendingAuthz :
       (a \notin pendingAuthz' /\ out'[a.conn] = out[a.conn] (+) SetToBag({Response(a.id, 0)}))
       => LET s == createActivityStreamId(a.resourceId, a.streamType) IN
          /\ Contains(connectionInfosPerStream'[s], a.conn)
          /\ bound'[s]
          /\ \A b \in pendingBind' : ~(b.conn = a.conn /\ b.stream = s)]_vars
  /\ [][\A b \in pendingBind :
          (b \notin pendingBind' /\ out'[b.conn] = out[b.conn] (+) SetToBag({Response(b.id, 0)}))
          => (Contains(connectionInfosPerStream'[b.stream], b.conn) /\ bound'[b.stream])]_vars

\* C11: when the bind of a subscribe request fails, the error is the response
\* and the subscription does not take effect: the socket is not in the
\* stream's list and the stream is not among the socket's streams, so that a
\* later subscribe of the socket to the stream binds again.
C11_BindFailureUndone ==
  [][\A b \in pendingBind : \A err \in BrokerErrors \ {0} :
       bindCallback(b, err)
       => /\ out'[b.conn] = out[b.conn] (+) SetToBag({Response(b.id, err)})
          /\ ~Contains(connectionInfosPerStream'[b.stream], b.conn)
          /\ ~Contains(streams'[b.conn], b.stream)]_vars

\* Nothing started on behalf of the socket is still in flight
Settled(c) ==
  /\ \A a \in pendingAuthz : a.conn # c
  /\ \A b \in pendingBind : b.conn # c
  /\ \A u \in pendingUnbind : u.conn # c

\* C12: once a socket's close was handled and every authorization, bind and
\* unbind callback started on its behalf has run, the socket is in no
\* stream's list.
C12_ClosedSocketInNoList ==
  \A c \in Connections :
    (sock[c] = "closed" /\ Settled(c))
    => \A s \in StreamIds : ~Contains(connectionInfosPerStream[s], c)

\* The close handling of a socket that is in none of the lists of its
\* streams changes no list and issues no unbind
CloseOfAbsentIsNoOp ==
  [][\A c \in Connections : onClose(c) =>
       \A s \in StreamIds :
         ~Contains(connectionInfosPerStream[s], c)
         => /\ connectionInfosPerStream'[s] = connectionInfosPerStream[s]
            /\ \A u \in pendingUnbind' \ pendingUnbind : u.stream # s]_vars

\* The close handling run again for a socket whose close was handled
\* would change no list and issue no unbind
CloseAgainIsNoOp ==
  [](\A c \in Connections :
       sock[c] = "closed"
       => (streamsToUnbind(c) = {} /\ listsAfterClose(c) = connectionInfosPerStream))

\* C13: removing a connection is idempotent: the close handling of a socket
\* that is in none of the lists of its streams changes no list and issues
\* no unbind, and so does the close handling run a second time.
C13_RemovalIdempotent == CloseOfAbsentIsNoOp /\ CloseAgainIsNoOp

\* C14: for each broker message a socket receives at most one push frame
\* per transform kind, whatever subscribe requests the socket has made.
C14_OneFramePerTransformKind ==
  \A c \in Connections : \A frame \in Written(c) :
    IsPush(frame) => TimesWritten(c, frame) <= 1

\* The number of push frames for message m among the frames o of the
\* sockets cs
RECURSIVE CopiesOfAll(_, _)
CopiesOfAll(frames, bag) ==
  IF frames = {} THEN 0
  ELSE LET frame == CHOOSE x \in frames : TRUE
       IN CopiesIn(frame, bag) + CopiesOfAll(frames \ {frame}, bag)
RECURSIVE PushesIn(_, _, _)
PushesIn(o, m, cs) ==
  IF cs = {} THEN 0
  ELSE LET c == CHOOSE x \in cs : TRUE
       IN CopiesOfAll({frame \in BagToSet(o[c]) : IsPush(frame) /\ frame.activities.message = m}, o[c])
          + PushesIn(o, m, cs \ {c})
PushesFor(m, cs) == PushesIn(out, m, cs)

\* The response frames a socket was sent
ResponsesOf(o, c) == {frame \in BagToSet(o[c]) : IsResponse(frame)}

\* C15: a transform failure for one (socket, format) pair skips only that
\* delivery and is not written to any socket: the dispatch of a message
\* attempts the transform of every pair of the stream's list, a failed
\* transform changes nothing a socket was sent and leaves the other
\* deliveries in flight, a successful one writes its frame, and the frames
\* written for a message are as many as its pairs less those failed or in
\* flight.
C15_TransformFailureSkipsOneDelivery ==
  /\ [][\A s \in MessageStreams :
          _handlePushActivity(s[1], s[2])
          => LET pairs == deliveries(connectionInfosPerStream[s], s)
                 m == nmessages'
             IN /\ Cardinality({t \in pendingTransform' : t.msg = m})
                     + dispatch'[m].completed = Len(pairs)
                /\ \A c \in Connections : ResponsesOf(out', c) = ResponsesOf(out, c)
                /\ PushesIn(out', m, Connections) = Len(pairs) - dispatch'[m].todo]_vars
  /\ [][\A t \in pendingTransform : \A err \in TransformErrors \ {0} :
          transformCallback(t, err)
          => (out' = out /\ pendingTransform' = pendingTransform \ {t})]_vars
  /\ [][\A t \in pendingTransform :
          transformCallback(t, 0)
          => out' = [out EXCEPT ![t.conn] = @ (+) SetToBag({PushFrame(t.msg, t.format)})]]_vars
  /\ [](\A m \in 1..Len(dispatch) :
          PushesFor(m, Connections)
            = dispatch[m].pairs - dispatch[m].todo)

\* Two sockets listen to the stream in different formats: the transform for
\* the first failed, the second got its frame, and no socket was sent the
\* failure
C15_Witness ==
  LET s == <<1, "activity">> IN
  /\ connectionInfosPerStream[s] = <<1, 2>>
  /\ transformerTypes[1][s] = <<"activitystreams">>
  /\ transformerTypes[2][s] = <<"internal">>
  /\ Len(dispatch) = 1 /\ dispatch[1].pairs = 2 /\ dispatch[1].completed = 2
  /\ dispatch[1].todo = 1
  /\ PushesFor(1, {1}) = 0
  /\ PushFrame(1, "internal") \in Written(2)
  /\ \A c \in Connections : \A frame \in ResponsesOf(out, c) : frame.code = 0

\* C16: the callback of the dispatch of a message is not invoked before the
\* transform of every (socket, format) pair of the message has completed.
C16_CallbackAfterAllPairs ==
  \A m \in 1..Len(dispatch) : \A i \in 1..Len(dispatch[m].calledAfter) :
    dispatch[m].calledAfter[i] = dispatch[m].pairs

\* The step leaves the registry, the sockets' own records, the broker and
\* the calls in flight as they are
NoSideEffects ==
  UNCHANGED <<ctx, streams, transformerTypes, connectionInfosPerStream, bound, pendVars>>

\* C18: a frame that does not parse, on an open socket in any state, is
\* answered with exactly one response {replyTo: 0, error: {code: 400, msg:
\* "Malformed message"}}, the socket is closed, and no registry entry, no
\* stream of the socket and no broker call comes of it.
C18_MalformedFrame ==
  [][\A c \in Connections : \A frame \in AnyFrame(c, nframes[c] + 1) :
       (Receives(c, frame) /\ ~frame.parsed)
       => /\ out'[c] = out[c] (+) SetToBag({ErrorResponse(0, 400, "Malformed message")})
          /\ sock'[c] = "closing"
          /\ NoSideEffects]_vars

\* An authenticated socket that is in a stream's list was sent the response
\* to a malformed frame, once, and is closing
C18_Witness ==
  \E c \in Connections : \E s \in StreamIds :
    /\ c \in authOk /\ Contains(connectionInfosPerStream[s], c)
    /\ TimesWritten(c, ErrorResponse(0, 400, "Malformed message")) = 1
    /\ nframes[c] = 3 /\ sock[c] = "closing"

\* C19: a frame that parses and has no id, on a socket authenticated or not,
\* is answered with an error response with replyTo 0 and code 400, the
\* socket is closed, and the frame reaches neither the authentication nor
\* the subscription handling.
C19_MissingId ==
  [][\A c \in Connections : \A frame \in AnyFrame(c, nframes[c] + 1) :
       (Receives(c, frame) /\ frame.parsed /\ frame.id = 0)
       => /\ out'[c] = out[c] (+) SetToBag({ErrorResponse(0, 400, "Missing id on the message")})
          /\ sock'[c] = "closing"
          /\ NoSideEffects]_vars

\* A subscribe frame that fails _subscribe's validation, and an
\* authentication frame that fails _authenticate's
FailsSubscribeValidation(frame) ==
  /\ frame.parsed /\ frame.id # 0 /\ frame.name = "subscribe"
  /\ \/ frame.payload = "none" \/ frame.resourceId = 0 \/ frame.streamType = ""
     \/ frame.format = "bogus" \/ frame.streamType = "unknown"
FailsAuthenticationValidation(frame) ==
  /\ frame.parsed /\ frame.id # 0 /\ frame.name = "authentication"
  /\ \/ frame.payload = "none" \/ frame.payload = "badexpires" \/ frame.userId = 0

\* The socket was sent one more frame, a response with this id and code
Answered(c, id, code) ==
  \E frame \in BagToSet(out'[c]) :
    /\ IsResponse(frame) /\ frame.replyTo = id /\ frame.code = code
    /\ out'[c] = out[c] (+) SetToBag({frame})

\* C20: every failure of a subscribe request (missing stream properties,
\* unknown format, unknown stream, authorization rejected, bind failed) is
\* answered with an error response and leaves the socket as it is; every
\* failure of an authentication request (no payload, validation error,
\* principal lookup error, invalid signature) is answered with an error
\* response and the socket is closed.
C20_SubscribeFailureKeepsSocket ==
  /\ [][\A c \in Connections : \A frame \in AnyFrame(c, nframes[c] + 1) :
          (Receives(c, frame) /\ ctx[c] # NoCtx /\ FailsSubscribeValidation(frame))
          => (Answered(c, frame.id, 400) /\ sock' = sock /\ NoSideEffects)]_vars
  /\ [][\A a \in pendingAuthz : \A err \in AuthzErrors \ {0} :
          authorizationCallback(a, err) => (Answered(a.conn, a.id, err) /\ sock' = sock)]_vars
  /\ [][\A b \in pendingBind : \A err \in BrokerErrors \ {0} :
          bindCallback(b, err) => (Answered(b.conn, b.id, err) /\ sock' = sock)]_vars
  /\ [][\A c \in Connections : \A frame \in AnyFrame(c, nframes[c] + 1) :
          (Receives(c, frame) /\ FailsAuthenticationValidation(frame))
          => (Answered(c, frame.id, 400) /\ sock'[c] = "closing"
              /\ pendingPrincipal' = pendingPrincipal)]_vars
  /\ [][\A p \in pendingPrincipal : \A err \in LookupErrors \ {0} : \A verified \in BOOLEAN :
          getPrincipalCallback(p, err, verified)
          => (Answered(p.conn, p.id, err) /\ sock'[p.conn] # "open")]_vars
  /\ [][\A p \in pendingPrincipal :
          getPrincipalCallback(p, 0, FALSE)
          => (Answered(p.conn, p.id, 401) /\ sock'[p.conn] # "open")]_vars

\* The socket's subscribe request for an unknown stream was refused and the
\* socket stayed open: its next frame, an authentication frame without
\* payload, was received and refused, and the socket is closing
C20_Witness ==
  \E c \in Connections :
    /\ c \in authOk /\ nframes[c] = 3 /\ sock[c] = "closing"
    /\ ErrorResponse(2, 400, "Unknown stream") \in Written(c)
    /\ ErrorResponse(3, 400, "Missing data payload containing the userId and signature")
         \in Written(c)

\* The listener submitted activity e for the target to the push exchange
Published(hook, e, target) == _push(hook, e, target[1], target[2]) \in published

\* C17: for every activity and every stream type at most one of the two
\* listeners submits to the push exchange, and which one is decided by the
\* stream type's registered push.delivery.phase alone: the delivered
\* listener when it is "aggregation", the routed listener otherwise.
C17_OneHookPerStreamType ==
  \A e \in 1..MaxEvents : \A target \in Targets :
    /\ ~(Published("routed", e, target) /\ Published("delivered", e, target))
    /\ Published("routed", e, target)
         <=> (target \in events[e].routed /\ phase[target[2]] # "aggregation")
    /\ Published("delivered", e, target)
         <=> (target \in events[e].delivered /\ phase[target[2]] = "aggregation")

\* One activity was routed and delivered to a resource's stream of a type
\* that pushes when routed and to its stream of a type that pushes when
\* aggregated: the first was submitted by the routed listener, the second by
\* the delivered listener
C17_Witness ==
  \E e \in 1..MaxEvents : \E r \in Resources :
    /\ phase["activity"] = "routing" /\ phase["notification"] = "aggregation"
    /\ {<<r, "activity">>, <<r, "notification">>} \subseteq events[e].delivered
    /\ Published("routed", e, <<r, "activity">>)
    /\ Published("delivered", e, <<r, "notification">>)

\* An authentication frame with a payload that fails some check
InvalidPayload(frame) ==
  /\ frame.parsed /\ frame.id # 0 /\ frame.name = "authentication"
  /\ frame.payload # "none"
  /\ \E field \in AuthenticationFlaws : failsCheck(frame, field)

\* The message of the first failing check in the order tenant alias, user
\* id, signature object, signature.expires, signature.signature
FirstFailingCheck(frame) ==
  IF failsCheck(frame, "tenantAlias") THEN "A tenant needs to be provided"
  ELSE IF failsCheck(frame, "userId") THEN "A userId needs to be provided"
  ELSE IF failsCheck(frame, "signature") THEN "A signature object needs to be provided"
  ELSE IF failsCheck(frame, "expires") THEN "Signature must contain an integer expires value"
  ELSE "Signature must contain a string signature value"

\* C21: when any check of the authentication payload fails (tenant alias,
\* user id, signature object; then signature.expires, signature.signature)
\* the client is sent exactly one error response, that of the first failing
\* check in this order, the socket is closed and the principal lookup is
\* not started.
C21_FirstValidationError ==
  [][\A c \in Connections : \A frame \in AnyFrame(c, nframes[c] + 1) :
       (Receives(c, frame) /\ InvalidPayload(frame))
       => /\ out'[c] = out[c] (+) SetToBag({ErrorResponse(frame.id, 400, FirstFailingCheck(frame))})
          /\ sock'[c] = "closing"
          /\ pendingPrincipal' = pendingPrincipal]_vars

\* A socket was sent the user id's error as its only frame, is closing, and
\* no lookup is in flight
C21_Witness ==
  \E c \in Connections :
    /\ out[c] = SetToBag({ErrorResponse(1, 400, "A userId needs to be provided")})
    /\ nframes[c] = 1 /\ sock[c] = "closing" /\ pendingPrincipal = {}

\* The step is the success branch of an authentication on socket c: a
\* lookup for c ends and its acknowledgment is written
AuthenticationSucceeds(c) ==
  \E p \in pendingPrincipal :
    /\ p.conn = c /\ getPrincipalCallback(p, 0, TRUE)
    /\ out'[c] = out[c] (+) SetToBag({Response(p.id, 0)})

\* C22: a successful authentication cancels the authentication timeout in
\* the step that writes the acknowledgment, which has the request's id as
\* replyTo and no error; the timeout of a connection is cancelled in a
\* successful authentication only, at most once (exactly once when the
\* socket is open), and once cancelled it never fires and is never armed
\* again.
C22_TimeoutCancelledOnSuccess ==
  /\ [][\A p \in pendingPrincipal :
          getPrincipalCallback(p, 0, TRUE)
          => /\ authenticationTimeout'[p.conn] # "armed"
             /\ sock[p.conn] = "open" => authenticationTimeout'[p.conn] = "cleared"
             /\ out'[p.conn] = out[p.conn] (+) SetToBag({Response(p.id, 0)})
             /\ sock' = sock]_vars
  /\ [][\A c \in Connections :
          authenticationTimeout[c] = "cleared" => authenticationTimeout'[c] = "cleared"]_vars
  /\ [][\A c \in Connections :
          (authenticationTimeout[c] # "cleared" /\ authenticationTimeout'[c] = "cleared")
          => (authenticationTimeout[c] = "armed" /\ AuthenticationSucceeds(c))]_vars

\* A socket authenticated twice: both acknowledgments were written and its
\* timeout is cancelled
C22_Witness ==
  \E c \in Connections :
    /\ authenticationTimeout[c] = "cleared" /\ sock[c] = "open"
    /\ Response(1, 0) \in Written(c) /\ Response(2, 0) \in Written(c)

\* The message _subscribe's validation is to answer a failing request with:
\* the stream's properties come first, the format second, the stream type's
\* authorization handler third
FirstSubscribeFailure(frame) ==
  IF frame.payload = "none" \/ frame.resourceId = 0 \/ frame.streamType = ""
    THEN "Missing stream properties"
  ELSE IF frame.format = "bogus" THEN "The specified stream format is unknown"
  ELSE "Unknown stream"

\* The step changes nothing of a subscription: no stream on a socket, no
\* list, no binding, no bind or unbind call
NothingSubscribed ==
  UNCHANGED <<ctx, streams, transformerTypes, connectionInfosPerStream, bound,
              pendingBind, pendingUnbind, sock>>

\* C23: a subscribe request is validated in order: missing resource id or
\* stream type is answered 400 before the format is looked at, an unknown
\* format 400 before the stream type's handler is looked up, a stream type
\* without authorization handler 400 "Unknown stream" without a handler
\* call; only then is the handler called, and its error is sent to the
\* client as it is.  In each failing case no bind is issued and neither the
\* registry nor the connection changes.
C23_SubscribeValidationOrder ==
  /\ [][\A c \in Connections : \A frame \in AnyFrame(c, nframes[c] + 1) :
          (Receives(c, frame) /\ ctx[c] # NoCtx /\ FailsSubscribeValidation(frame))
          => /\ out'[c] = out[c] (+)
                  SetToBag({ErrorResponse(frame.id, 400, FirstSubscribeFailure(frame))})
             /\ pendingAuthz' = pendingAuthz
             /\ NothingSubscribed]_vars
  /\ [][\A c \in Connections : \A frame \in AnyFrame(c, nframes[c] + 1) :
          (/\ Receives(c, frame) /\ ctx[c] # NoCtx
           /\ frame.parsed /\ frame.id # 0 /\ frame.name = "subscribe"
           /\ ~FailsSubscribeValidation(frame))
          => /\ \E a \in pendingAuthz' \ pendingAuthz :
                  /\ a.conn = c /\ a.id = frame.id
                  /\ a.resourceId = frame.resourceId /\ a.streamType = frame.streamType
                  /\ pendingAuthz' = pendingAuthz \cup {a}
             /\ out' = out
             /\ NothingSubscribed]_vars
  /\ [][\A a \in pendingAuthz : \A err \in AuthzErrors \ {0} :
          authorizationCallback(a, err)
          => /\ out'[a.conn] = out[a.conn] (+) SetToBag({Response(a.id, err)})
             /\ NothingSubscribed]_vars

\* An authenticated socket asked for a stream without resource id in an
\* unknown format, then for an unknown stream type in an unknown format:
\* it was answered with the first failure of each, is open and has nothing
\* subscribed and no call in flight
C23_Witness ==
  \E c \in Connections :
    /\ c \in authOk /\ sock[c] = "open" /\ nframes[c] = 3
    /\ ErrorResponse(2, 400, "Missing stream properties") \in Written(c)
    /\ ErrorResponse(3, 400, "The specified stream format is unknown") \in Written(c)
    /\ streams[c] = <<>> /\ pendingAuthz = {} /\ pendingBind = {}

\* C24: the dispatch of a broker message never changes the message's
\* activities: every (socket, format) delivery has the transformer work on
\* a clone of its own, so each transformer call is handed activities equal
\* to the message's, whatever the earlier transforms did.
C24_PayloadNeverMutated ==
  \A m \in 1..Len(dispatch) :
    /\ dispatch[m].heap[0] = Payload(m)
    /\ Len(dispatch[m].given) = dispatch[m].pairs
    /\ \A k \in 1..Len(dispatch[m].given) : dispatch[m].given[k] = Payload(m)

\* A message was dispatched to two deliveries of different formats, both
\* transforms succeeded and each socket was sent its own rendering
C24_Witness ==
  /\ Len(dispatch) = 1 /\ dispatch[1].pairs = 2 /\ dispatch[1].todo = 0
  /\ dispatch[1].heap[1] = transformActivities(Payload(1), "internal")
  /\ dispatch[1].heap[2] = transformActivities(Payload(1), "activitystreams")
  /\ \E c \in Connections : PushFrame(1, "activitystreams") \in Written(c)

\* No stream is twice in a connection's streams
NoStreamTwice ==
  \A c \in Connections : \A i, j \in 1..Len(streams[c]) :
    streams[c][i] = streams[c][j] => i = j

\* C25: no broker operation is retried.  A bind call is issued only by a
\* subscribe request whose authorization succeeded, one call at most, and
\* a request is authorized once; an unbind call is issued only by the close
\* handler, one at most for each stream of the closing socket, and a socket
\* closes once; a bind or unbind call that called back, with or without
\* error, is over and issues no further call.
C25_NoRetry ==
  /\ []NoStreamTwice
  /\ [][\/ pendingBind' \subseteq pendingBind
         \/ \E a \in pendingAuthz \ pendingAuthz' : \E b \in pendingBind' \ pendingBind :
              /\ authorizationCallback(a, 0)
              /\ pendingBind' = pendingBind \cup {b}
              /\ b.conn = a.conn /\ b.id = a.id]_vars
  /\ [][\/ pendingAuthz' \subseteq pendingAuthz
         \/ \E c \in Connections : \E a \in pendingAuthz' \ pendingAuthz :
              /\ nframes'[c] = nframes[c] + 1
              /\ pendingAuthz' = pendingAuthz \cup {a}
              /\ a.conn = c /\ a.id = nframes'[c]]_vars
  /\ [][\/ pendingUnbind' \subseteq pendingUnbind
         \/ \E c \in Connections :
              /\ onClose(c)
              /\ \A u \in pendingUnbind' \ pendingUnbind :
                   u.conn = c /\ Contains(streams[c], u.stream)]_vars
  /\ [][\A c \in Connections : sock[c] = "closed" => sock'[c] = "closed"]_vars
  /\ [][\A b \in pendingBind : \A err \in BrokerErrors :
          bindCallback(b, err)
          => (pendingBind' = pendingBind \ {b} /\ pendingUnbind' = pendingUnbind)]_vars
  /\ [][\A u \in pendingUnbind : \A err \in BrokerErrors :
          unbindCallback(u, err)
          => (pendingUnbind' = pendingUnbind \ {u} /\ pendingBind' = pendingBind)]_vars

\* A socket's bind call for one stream failed and, after it closed, the
\* unbind call for another stream failed: the first was answered with the
\* error, the second left the binding in place, and no call is in flight
C25_Witness ==
  \E c \in Connections : \E s \in StreamIds :
    /\ sock[c] = "closed" /\ Response(2, 500) \in Written(c)
    /\ Response(3, 0) \in Written(c)
    /\ bound[s] /\ connectionInfosPerStream[s] = <<>>
    /\ pendingBind = {} /\ pendingUnbind = {}

\* The envelope is published under the topic of its resource id and stream
\* type
UnderItsTopic ==
  \A x \in published : x.routingKey = <<x.resourceId, x.streamType>>

\* C26: for each (resource id, stream type) of the batch given to a
\* listener, the listener publishes an envelope under the topic (resource
\* id, stream type) if and only if the stream type's declared push phase is
\* the listener's: "routing" for the routed listener, "aggregation" for the
\* delivered one; a stream type with no declared push phase is published
\* by neither.
C26_PublishedIffPhaseMatches ==
  /\ UnderItsTopic
  /\ \A e \in 1..MaxEvents : \A target \in Targets :
       /\ Published("routed", e, target)
            <=> (target \in events[e].routed /\ phase[target[2]] = "routing")
       /\ Published("delivered", e, target)
            <=> (target \in events[e].delivered /\ phase[target[2]] = "aggregation")
       /\ phase[target[2]] = "none"
            => ~Published("routed", e, target) /\ ~Published("delivered", e, target)

\* A subscribe request that passes validation, for a stream the socket
\* already tracks, in a format other than those recorded for it
ResubscribesInOtherFormat(c, frame) ==
  /\ frame.parsed /\ frame.id # 0 /\ frame.name = "subscribe"
  /\ ~FailsSubscribeValidation(frame)
  /\ ctx[c] # NoCtx
  /\ Contains(streams[c], FrameStream(frame))
  /\ transformerTypes[c][FrameStream(frame)] # <<>>
  /\ ~Contains(transformerTypes[c][FrameStream(frame)], transformerTypeOf(frame.format))

\* C27 as claimed: a subscribe request for a stream the connection already
\* tracks, sent with a different format, is accepted without the stream
\* type's authorization handler being invoked again.
C27_NoSecondAuthorization ==
  [][\A c \in Connections : \A frame \in AnyFrame(c, nframes[c] + 1) :
       (Receives(c, frame) /\ ResubscribesInOtherFormat(c, frame))
       => pendingAuthz' = pendingAuthz]_vars

\* C27 as amended: such a request invokes the authorization handler again
\* and is answered only by the handler's callback: with the handler's
\* error, or, when it succeeded, with the acknowledgment, the format being
\* recorded and no bind call issued.
C27_AuthorizedAgainNoBind ==
  /\ [][\A c \in Connections : \A frame \in AnyFrame(c, nframes[c] + 1) :
          (Receives(c, frame) /\ ResubscribesInOtherFormat(c, frame))
          => /\ \E a \in pendingAuthz' \ pendingAuthz :
                  /\ a.conn = c /\ a.id = frame.id
                  /\ createActivityStreamId(a.resourceId, a.streamType) = FrameStream(frame)
             /\ out' = out
             /\ UNCHANGED <<transformerTypes, pendingBind>>]_vars
  /\ [][\A a \in pendingAuthz : \A err \in AuthzErrors :
          LET s == createActivityStreamId(a.resourceId, a.streamType) IN
          (authorizationCallback(a, err) /\ Contains(streams[a.conn], s))
          => /\ out'[a.conn] = out[a.conn] (+) SetToBag({Response(a.id, err)})
             /\ pendingBind' = pendingBind
             /\ UNCHANGED <<streams, connectionInfosPerStream, bound>>
             /\ transformerTypes' =
                  IF err = 0 THEN finishTransformerTypes(a.conn, s, a.format)
                  ELSE transformerTypes]_vars

\* A socket is subscribed to one stream in both formats: both requests were
\* acknowledged, the stream is once in its streams and no bind is in flight
C27_Witness ==
  \E c \in Connections : \E s \in StreamIds :
    /\ streams[c] = <<s>> /\ bound[s] /\ pendingBind = {}
    /\ transformerTypes[c][s] = <<"internal", "activitystreams">>
    /\ Response(2, 0) \in Written(c) /\ Response(3, 0) \in Written(c)

\* The frame is a push frame of broker message m for socket c: it has the
\* message's resource id, stream type and numNewActivities, the message's
\* activities transformed in the frame's format, a format recorded for
\* the stream on the socket, these five fields and no other
PushFrameOf(frame, m, c) ==
  /\ DOMAIN frame = {"resourceId", "streamType", "activities", "format", "numNewActivities"}
  /\ frame.resourceId = dispatch[m].resourceId
  /\ frame.streamType = dispatch[m].streamType
  /\ frame.numNewActivities = dispatch[m].numNewActivities
  /\ frame.activities = transformActivities(Payload(m), frame.format)
  /\ Contains(transformerTypes[c][MessageStream(m)], frame.format)

\* The transform kind to record for a request's format
KindOf(format) == IF format = NoFormat THEN "internal" ELSE format

\* C28: every push frame written by the dispatch has resourceId and
\* streamType of the broker message, the transformed activities,
\* numNewActivities of the message and the format recorded at subscribe
\* time, which is the requested format, or the internal one when the
\* request named none; it has no replyTo.
C28_PushFrameFields ==
  /\ [](\A c \in Connections : \A frame \in BagToSet(out[c]) :
         ~IsResponse(frame) => \E m \in 1..Len(dispatch) : PushFrameOf(frame, m, c))
  /\ [][\A c \in Connections : \A frame \in AnyFrame(c, nframes[c] + 1) :
          (/\ Receives(c, frame) /\ ctx[c] # NoCtx
           /\ frame.parsed /\ frame.id # 0 /\ frame.name = "subscribe"
           /\ ~FailsSubscribeValidation(frame))
          => \E a \in pendingAuthz' \ pendingAuthz :
               a.conn = c /\ a.id = frame.id /\ a.format = frame.format]_vars
  /\ [][\A a \in pendingAuthz :
          LET s == createActivityStreamId(a.resourceId, a.streamType) IN
          authorizationCallback(a, 0)
          => /\ \A b \in pendingBind' \ pendingBind : b.format = a.format
             /\ \/ transformerTypes' = transformerTypes
                \/ transformerTypes' =
                     [transformerTypes EXCEPT ![a.conn][s] = Append(@, KindOf(a.format))]]_vars
  /\ [][\A b \in pendingBind :
          bindCallback(b, 0)
          => transformerTypes' =
               [transformerTypes EXCEPT ![b.conn][b.stream] = Append(@, KindOf(b.format))]]_vars
  /\ [][\A c \in Connections : \A s \in StreamIds :
          \/ transformerTypes'[c][s] = transformerTypes[c][s]
          \/ \E format \in TransformerTypes :
               transformerTypes'[c][s] = Append(transformerTypes[c][s], format)]_vars

\* A socket that subscribed to a stream without format and with the
\* activity streams format was sent a message with numNewActivities in
\* both renderings
C28_Witness ==
  \E c \in Connections :
    /\ Len(dispatch) = 1 /\ dispatch[1].numNewActivities = 2
    /\ PushFrame(1, "internal") \in Written(c)
    /\ PushFrame(1, "activitystreams") \in Written(c)

\* The i-th broker call of the node failed
FailedAt(n, i) ==
  /\ Len(mqCalls[n]) >= i
  /\ mqCalls[n][i].result # Pending /\ mqCalls[n][i].result # 0

\* C29: init is strictly ordered: the queue is declared only after the
\* exchange declaration succeeded, the queue is consumed from only after
\* its declaration succeeded; when a declaration fails, init's callback
\* is given that error and neither the queue declaration nor the consume
\* follows.
C29_InitOrdered ==
  \A n \in Nodes :
    LET calls == mqCalls[n] IN
    /\ Len(calls) <= 3
    /\ Len(calls) >= 1 => calls[1].op = "declareExchange"
    /\ Len(calls) >= 2 => (calls[2].op = "declareQueue" /\ calls[1].result = 0)
    /\ Len(calls) >= 3 => /\ calls[3].op = "subscribeQueue" /\ calls[2].result = 0
                           /\ calls[3].queue = calls[2].queue
    /\ \A i \in 1..2 : FailedAt(n, i)
         => (Len(calls) = i /\ initResult[n] = <<calls[i].result>>)
    /\ Len(initResult[n]) <= 1
    /\ initResult[n] # <<>>
         => (calls # <<>> /\ initResult[n] = <<calls[Len(calls)].result>>)

\* One node consumes from its queue, the other's queue declaration failed:
\* its init was given the error and made no further call
C29_Witness ==
  \E n, o \in Nodes :
    /\ Len(mqCalls[n]) = 3 /\ mqCalls[n][3].result = 0 /\ initResult[n] = <<0>>
    /\ Len(mqCalls[o]) = 2 /\ FailedAt(o, 2) /\ initResult[o] = <<500>>

\* The step writes the success acknowledgment of request id to the socket
Acknowledged(c, id) ==
  CopiesIn(Response(id, 0), out'[c]) > CopiesIn(Response(id, 0), out[c])

\* C30: the success acknowledgment to an authentication frame is sent if
\* and only if the payload passed validation, the principal lookup succeeded
\* and the signature verified; a lookup error is sent to the client as the
\* response, an unverifiable signature is answered 401 "Invalid signature",
\* and each is followed by the socket's closure.
C30_AcknowledgedIffVerified ==
  /\ [][\A c \in Connections : \A frame \in AnyFrame(c, nframes[c] + 1) :
          (Receives(c, frame) /\ frame.parsed /\ frame.id # 0
           /\ frame.name = "authentication")
          => /\ ~Acknowledged(c, frame.id)
             /\ IF frame.payload = "none" \/ InvalidPayload(frame)
                  THEN pendingPrincipal' = pendingPrincipal
                  ELSE \E p \in pendingPrincipal' \ pendingPrincipal :
                         /\ p.conn = c /\ p.id = frame.id /\ p.userId = frame.userId
                         /\ pendingPrincipal' = pendingPrincipal \cup {p}]_vars
  /\ [][\A p \in pendingPrincipal : \A err \in LookupErrors : \A verified \in BOOLEAN :
          getPrincipalCallback(p, err, verified)
          => /\ Acknowledged(p.conn, p.id) <=> (err = 0 /\ verified)
             /\ err # 0
                  => /\ out'[p.conn] = out[p.conn] (+) SetToBag({Response(p.id, err)})
                     /\ sock'[p.conn] # "open"
             /\ (err = 0 /\ ~verified)
                  => /\ out'[p.conn] = out[p.conn] (+)
                          SetToBag({ErrorResponse(p.id, 401, "Invalid signature")})
                     /\ sock'[p.conn] # "open"
             /\ (err = 0 /\ verified)
                  => /\ out'[p.conn] = out[p.conn] (+) SetToBag({Response(p.id, 0)})
                     /\ sock' = sock]_vars
  /\ [][\A c \in Connections : c \in authOk' \ authOk => AuthenticationSucceeds(c)]_vars

\* A socket was acknowledged its first authentication; its second, with a
\* signature that does not verify, was answered 401 and the socket closed
C30_Witness ==
  \E c \in Connections :
    /\ Response(1, 0) \in Written(c)
    /\ ErrorResponse(2, 401, "Invalid signature") \in Written(c)
    /\ ~(Response(2, 0) \in Written(c))
    /\ sock[c] # "open"

\* Call k was made by a user who followed the target already and has ended
FollowedAgain(k) == followCalls[k].followed /\ followCalls[k].at = "done"

\* The FOLLOW events of every call come after its successful save
EmittedAfterSave ==
  \A k \in DOMAIN followCalls :
    followCalls[k].emitted > 0 =>
      /\ followCalls[k].saved > 0
      /\ <<followCalls[k].user, followCalls[k].followedUserId>> \in following

\* C31 as stated: a follow by a user who follows the target already calls
\* back without error, saves nothing and emits no FOLLOW event, and a FOLLOW
\* event is emitted only after a successful save.
C31_FollowAgainSucceeds ==
  /\ \A k \in DOMAIN followCalls :
       FollowedAgain(k) =>
         /\ followCalls[k].callback = <<0>>
         /\ followCalls[k].saves = 0
         /\ followCalls[k].emitted = 0
  /\ EmittedAfterSave

\* C31, amended: a follow by a user who follows the target already saves
\* nothing and emits no FOLLOW event; it calls back once, without error when
\* the fetch of the followed user, the permission check and the lookup of the
\* follows succeed and with the error of the one that failed otherwise.  A
\* FOLLOW event is emitted only after a successful save.
C31_FollowAgainSavesNothing ==
  /\ \A k \in DOMAIN followCalls :
       followCalls[k].followed =>
         /\ followCalls[k].saves = 0
         /\ followCalls[k].emitted = 0
         /\ followCalls[k].at = "done" =>
              /\ Len(followCalls[k].callback) = 1
              /\ followCalls[k].callback = <<0>> <=> followCalls[k].failed = ""
              /\ followCalls[k].failed \in {"", "getPrincipal", "canFollow", "isFollowing"}
  /\ EmittedAfterSave

\* A first follow was saved and emitted its event; the same user followed
\* the same target again and was answered without error
C31_Witness ==
  \E j, k \in DOMAIN followCalls :
    /\ j < k
    /\ followCalls[j].emitted = 1
    /\ followCalls[k].user = followCalls[j].user
    /\ followCalls[k].followedUserId = followCalls[j].followedUserId
    /\ FollowedAgain(k)
    /\ followCalls[k].callback = <<0>>

\* C32: no frame is written to a socket after it has been closed: once the
\* socket's close event was handled, no timer callback, continuation or
\* dispatch adds a frame to what the socket was sent.
C32_NoWriteAfterClose ==
  [][\A c \in Connections : sock[c] = "closed" => out'[c] = out[c]]_vars

\* C33: a connection has a context only if a signature was verified for it:
\* every connection with a context was sent an authentication
\* acknowledgment, so that after a rejected signature the context is empty.
C33_ContextOnlyIfVerified ==
  \A c \in Connections : ctx[c] # NoCtx => c \in authOk

\* C34: the closing of one connection spares the others: a connection that
\* is open and stays open is removed from no stream's list, and no unbind is
\* issued or performed for a stream in whose list it is.
C34_CloseSparesOthers ==
  [][\A d \in Connections : \A s \in StreamIds :
       (sock[d] = "open" /\ sock'[d] = "open" /\ Contains(connectionInfosPerStream[s], d))
       => /\ Contains(connectionInfosPerStream'[s], d)
          /\ bound[s] => bound'[s]
          /\ \A u \in pendingUnbind' \ pendingUnbind : u.stream # s]_vars

\* C35: an open connection that was sent a success response for a subscribe
\* to a stream (finish() recorded a format for the stream and acknowledged)
\* is in the stream's list, and the stream is bound.
C35_AcknowledgedIsListedAndBound ==
  \A c \in Connections : \A s \in StreamIds :
    (sock[c] = "open" /\ transformerTypes[c][s] # <<>>)
    => (Contains(connectionInfosPerStream[s], c) /\ bound[s])

\* C36: the callback of every dispatched message is invoked exactly once,
\* provided every transform calls back.  The callback is invoked by transform
\* callbacks only, so the claim stands exactly if every message none of whose
\* transforms is still in flight has had its callback invoked once.
C36_CallbackExactlyOnce ==
  \A m \in 1..Len(dispatch) :
    (\A t \in pendingTransform : t.msg # m) => Len(dispatch[m].calledAfter) = 1

\* The number of response frames with this replyTo among the frames o of
\* the socket
RepliesTo(o, c, id) ==
  CopiesOfAll({frame \in BagToSet(o[c]) : IsResponse(frame) /\ frame.replyTo = id}, o[c])

\* The number of collaborator calls in flight for the socket's frame with
\* this id, among the given lookups, authorizations and binds
InFlightFor(lookups, authorizations, binds, c, id) ==
  Cardinality({p \in lookups : p.conn = c /\ p.id = id})
    + Cardinality({a \in authorizations : a.conn = c /\ a.id = id})
    + Cardinality({b \in binds : b.conn = c /\ b.id = id})

\* The frame is handed to _authenticate or _subscribe
AcceptedForHandling(c, frame) ==
  /\ frame.parsed /\ frame.value = "object" /\ frame.id # 0
  /\ frame.name \in {"authentication", "subscribe"}
  /\ frame.name = "authentication" \/ ctx[c] # NoCtx

\* C37: every authentication or subscribe frame with an id that is handed to
\* its handler gets exactly one response with its id, on every path, when
\* each collaborator calls back once: when the frame is received, either its
\* response is written or one collaborator call is started for it; each
\* callback either writes the response or starts the next call; and a frame
\* is never answered twice nor answered while a call of it is in flight.
C37_ExactlyOneResponse ==
  /\ [][\A c \in Connections : \A frame \in AnyFrame(c, nframes[c] + 1) :
          (Receives(c, frame) /\ AcceptedForHandling(c, frame))
          => RepliesTo(out', c, frame.id)
               + InFlightFor(pendingPrincipal', pendingAuthz', pendingBind', c, frame.id) = 1]_vars
  /\ [][\A c \in Connections : \A id \in 1..nframes[c] :
          RepliesTo(out, c, id)
            + InFlightFor(pendingPrincipal, pendingAuthz, pendingBind, c, id) = 1
          => RepliesTo(out', c, id)
               + InFlightFor(pendingPrincipal', pendingAuthz', pendingBind', c, id) = 1]_vars
  /\ [](\A c \in Connections : \A id \in 1..nframes[c] :
          RepliesTo(out, c, id)
            + InFlightFor(pendingPrincipal, pendingAuthz, pendingBind, c, id) <= 1)

\* The socket's authentication and its first subscribe were acknowledged, its
\* second subscribe was refused by the broker's bind or the authorization
\* handler; each of the three frames has its one response and nothing is in
\* flight
C37_Witness ==
  \E c \in Connections :
    /\ nframes[c] = 3
    /\ pendingPrincipal = {} /\ pendingAuthz = {} /\ pendingBind = {}
    /\ Response(1, 0) \in Written(c) /\ Response(2, 0) \in Written(c)
    /\ \E err \in (AuthzErrors \cup BrokerErrors) \ {0} : Response(3, err) \in Written(c)
    /\ \A id \in 1..3 : RepliesTo(out, c, id) = 1

\* How often the connection occurs in the list
RECURSIVE Occurrences(_, _)
Occurrences(list, c) ==
  IF list = <<>> THEN 0
  ELSE (IF Head(list) = c THEN 1 ELSE 0) + Occurrences(Tail(list), c)

\* C38: a connection occurs at most once in the list of any stream, however
\* often and in however many formats it subscribed to the stream, and the
\* close handler's splice leaves no occurrence of the closing connection in
\* a list it spliced.
C38_AtMostOnceInList ==
  /\ [](\A s \in StreamIds : \A c \in Connections :
          Occurrences(connectionInfosPerStream[s], c) <= 1)
  /\ [][\A c \in Connections : onClose(c) =>
          \A s \in StreamIds :
            Len(connectionInfosPerStream[s]) > 1
            => ~Contains(connectionInfosPerStream'[s], c)]_vars

\* The first socket subscribed to the stream in two formats next to the
\* second socket, closed, and was spliced out of the list
C38_Witness ==
  LET s == <<1, "activity">> IN
  /\ Len(transformerTypes[1][s]) = 2
  /\ transformerTypes[1][s][1] # transformerTypes[1][s][2]
  /\ sock[1] = "closed"
  /\ connectionInfosPerStream[s] = <<2>>
  /\ pendingUnbind = {}

\* C39: every connection in the list of a stream has the stream among its
\* own streams, a transformer recorded for it and a context, in every state a
\* dispatch may start from.
C39_ListedIsComplete ==
  \A s \in StreamIds : \A c \in Connections :
    Contains(connectionInfosPerStream[s], c)
    => /\ Contains(streams[c], s)
       /\ transformerTypes[c][s] # <<>>
       /\ ctx[c] # NoCtx

\* A message was dispatched to the two sockets in the list of its stream
C39_Witness ==
  /\ Len(dispatch) = 1 /\ dispatch[1].pairs = 2
  /\ Len(connectionInfosPerStream[MessageStream(1)]) = 2
  /\ \A c \in Connections :
       /\ Contains(connectionInfosPerStream[MessageStream(1)], c)
       /\ Contains(streams[c], MessageStream(1))
       /\ transformerTypes[c][MessageStream(1)] # <<>>
       /\ ctx[c] # NoCtx

\* The messages of the failed checks among these, in the order of the checks
RECURSIVE FailedOf(_)
FailedOf(checks) ==
  IF checks = <<>> THEN <<>>
  ELSE (IF Head(checks).failed THEN <<Head(checks).msg>> ELSE <<>>) \o FailedOf(Tail(checks))

\* C40: a Validator holds the errors of its failed checks in the order the
\* checks were made, and every check, failed or not, lets the next one be
\* made; hasErrors is true exactly when getErrorCount is greater than zero,
\* getFirstError is the error of the earliest failed check, and getErrors and
\* getFirstError are null when no check has failed.
C40_ValidatorRecordsInOrder ==
  /\ _errors = FailedOf(checked)
  /\ getErrorCount(_errors) = Len(FailedOf(checked))
  /\ hasErrors(_errors) <=> getErrorCount(_errors) > 0
  /\ IF FailedOf(checked) = <<>>
       THEN getErrors(_errors) = "" /\ getFirstError(_errors) = ""
       ELSE /\ getErrors(_errors) = FailedOf(checked)
            /\ getFirstError(_errors) = FailedOf(checked)[1]
  /\ Len(checked) < MaxChecks => ENABLED NextValidation

\* Four checks were made: the first passed, the second failed with one
\* message, the third with the other, the fourth passed
C40_Witness ==
  /\ Len(checked) = 4
  /\ ~checked[1].failed /\ checked[2].failed /\ checked[3].failed /\ ~checked[4].failed
  /\ checked[2].msg # checked[3].msg
  /\ getFirstError(_errors) = checked[2].msg
  /\ getErrorCount(_errors) = 2
====
